---- MODULE Spec2Model ----
(***************************************************************************)
(* Model of the FatSecret nutrition pipeline of o-calorista                *)
(* (src/unnamed/part_002: parseSearchResults, selectBestMatch,             *)
(* calculateServingSize, scaleNutritionalValues, getFoodNutritionalValues, *)
(* addToAggregate, roundAggregate, getAggregateNutritionalValues).         *)
(*                                                                         *)
(* One aggregate call is a state machine whose steps are the stretches of  *)
(* code between two awaits; an external call (fetch, OpenAI) in flight is  *)
(* an element of `pending`, and the environment answers it with a          *)
(* response drawn from a small set.                                        *)
(*                                                                         *)
(* JavaScript numbers are modelled as exact rationals n/d (IEEE rounding   *)
(* error is not modelled); JavaScript values carry their type in field t.  *)
(***************************************************************************)
EXTENDS Integers, Sequences, FiniteSets

(***************************************************************************)
(* Bounds of the model.                                                    *)
(***************************************************************************)
\* longest items list given to getAggregateNutritionalValues
MaxItems == 2
\* most rows of a search page
MaxRows == 2
\* most rows of a search page whose rows are all, or all but one, food rows
MaxFoodRows == 11
\* most label and value pairs of a detail page made of arbitrary pairs
MaxFactRows == 2
\* longest items list of each of two concurrent aggregate calls
MaxItemsEach == 1
\* most messages of the POST /webhook handled
MaxMessages == 2
\* most model responses that request tool calls, per message processed
MaxRounds == 1

(***************************************************************************)
(* JavaScript values.                                                      *)
(***************************************************************************)
RECURSIVE GCD(_, _)
GCD(a, b) == IF b = 0 THEN a ELSE GCD(b, a % b)

Abs(a) == IF a < 0 THEN -a ELSE a

\* the number n/d in lowest terms, d > 0
Rat(n, d) ==
  LET g == GCD(Abs(n), Abs(d))
      s == IF d < 0 THEN -1 ELSE 1
  IN  [t |-> "number", n |-> s * (n \div g), d |-> s * (d \div g)]

Int2Num(k) == [t |-> "number", n |-> k, d |-> 1]
\* the decimal literal m/1000, e.g. Dec(3154) is 3.154
Dec(m) == Rat(m, 1000)

Undefined == [t |-> "undefined"]
Null == [t |-> "null"]
NaN == [t |-> "NaN"]
\* a string is the sequence of its characters
Str(s) == [t |-> "string", s |-> s]
\* an object, of which only the property the code reads is kept
\* (an absent property reads as undefined)
Obj(v) == [t |-> "object", p |-> v]
\* a non-negative integer too large for the model's integers, as its digits
Big(ds) == [t |-> "number", big |-> ds]

IsNum(x) == x.t = "number"
IsBig(x) == IsNum(x) /\ "big" \in DOMAIN x
IsRat(x) == IsNum(x) /\ ~IsBig(x)

Digits == <<"0", "1", "2", "3", "4", "5", "6", "7", "8", "9">>
DigitSet == {Digits[k] : k \in 1..10}
DigitValues == [c \in DigitSet |-> (CHOOSE k \in 1..10 : Digits[k] = c) - 1]
IsDigit(c) == c \in DigitSet
DigitVal(c) == DigitValues[c]

RECURSIVE DigitsOf(_)
DigitsOf(k) ==
  IF k < 10 THEN <<Digits[k + 1]>>
  ELSE DigitsOf(k \div 10) \o <<Digits[(k % 10) + 1]>>

RECURSIVE FracDigits(_, _)
FracDigits(r, d) ==
  IF r = 0 THEN <<>>
  ELSE <<Digits[((r * 10) \div d) + 1]>> \o FracDigits((r * 10) % d, d)

RECURSIVE StripZeros(_)
StripZeros(ds) ==
  IF Len(ds) > 1 /\ ds[1] = "0" THEN StripZeros(Tail(ds)) ELSE ds

RECURSIVE DigitsValue(_)
DigitsValue(ds) ==
  IF ds = <<>> THEN 0
  ELSE 10 * DigitsValue(SubSeq(ds, 1, Len(ds) - 1)) + DigitVal(ds[Len(ds)])

RECURSIVE Pow10(_)
Pow10(k) == IF k = 0 THEN 1 ELSE 10 * Pow10(k - 1)

\* ToString of a non-negative number with a finite decimal expansion
\* (Number::toString: 150 -> "150", 62.5 -> "62.5"), of a string, of undefined
ToString(x) ==
  CASE x.t = "string" -> x.s
    [] IsBig(x) -> x.big
    [] IsRat(x) /\ x.n >= 0 ->
         DigitsOf(x.n \div x.d)
           \o (IF x.n % x.d = 0 THEN <<>> ELSE <<".">> \o FracDigits(x.n % x.d, x.d))
    [] x.t = "undefined" -> <<"u", "n", "d", "e", "f", "i", "n", "e", "d">>
    [] x.t = "null" -> <<"n", "u", "l", "l">>
    [] x.t = "NaN" -> <<"N", "a", "N">>

\* StringToNumber for strings without sign, exponent or blanks: "" is 0, an
\* unsigned decimal literal is its value, anything else is NaN.  An integer
\* of more than 9 digits does not fit the model's integers and is kept as Big.
StringToNumber(s) ==
  LET dots == {i \in 1..Len(s) : s[i] = "."}
      ok   == /\ \A i \in 1..Len(s) : IsDigit(s[i]) \/ s[i] = "."
              /\ Cardinality(dots) <= 1
              /\ Len(s) > Cardinality(dots)
  IN  IF s = <<>> THEN Int2Num(0)
      ELSE IF ~ok THEN NaN
      ELSE IF dots = {}
        THEN IF Len(StripZeros(s)) > 9 THEN Big(StripZeros(s))
             ELSE Int2Num(DigitsValue(s))
        ELSE LET p == CHOOSE i \in dots : TRUE
                 ip == SubSeq(s, 1, p - 1)
                 fp == SubSeq(s, p + 1, Len(s))
             IN  Rat(DigitsValue(ip) * Pow10(Len(fp)) + DigitsValue(fp), Pow10(Len(fp)))

\* ToNumber
ToNumber(x) ==
  CASE x.t = "number" -> x
    [] x.t = "NaN" -> NaN
    [] x.t = "undefined" -> NaN
    [] x.t = "null" -> Int2Num(0)
    [] x.t = "string" -> StringToNumber(x.s)

\* arithmetic on rationals
RAdd(a, b) == Rat(a.n * b.d + b.n * a.d, a.d * b.d)
RSub(a, b) == Rat(a.n * b.d - b.n * a.d, a.d * b.d)
RMul(a, b) == Rat(a.n * b.n, a.d * b.d)
RDiv(a, b) == Rat(a.n * b.d, a.d * b.n)
RLt(a, b) == a.n * b.d < b.n * a.d
RLe(a, b) == a.n * b.d <= b.n * a.d
RAbs(a) == [a EXCEPT !.n = Abs(a.n)]
\* is the rational an integer
IsInt(a) == IsRat(a) /\ a.d = 1

\* x - y, x * y, x / y of JavaScript: both operands go through ToNumber
JsSub(x, y) ==
  LET a == ToNumber(x)
      b == ToNumber(y)
  IN  IF IsRat(a) /\ IsRat(b) THEN RSub(a, b) ELSE NaN
JsMul(x, y) ==
  LET a == ToNumber(x)
      b == ToNumber(y)
  IN  IF IsRat(a) /\ IsRat(b) THEN RMul(a, b) ELSE NaN
JsDiv(x, y) ==
  LET a == ToNumber(x)
      b == ToNumber(y)
  IN  IF IsRat(a) /\ IsRat(b) /\ b.n # 0 THEN RDiv(a, b) ELSE NaN
\* x + y of JavaScript: concatenation as soon as one operand is a string
JsAdd(x, y) ==
  IF x.t = "string" \/ y.t = "string" THEN Str(ToString(x) \o ToString(y))
  ELSE LET a == ToNumber(x)
           b == ToNumber(y)
       IN  IF IsRat(a) /\ IsRat(b) THEN RAdd(a, b) ELSE NaN
\* x < y, x >= y, x > y of JavaScript on a value and a number: false on NaN
JsLt(x, y) ==
  LET a == ToNumber(x)
      b == ToNumber(y)
  IN  IsRat(a) /\ IsRat(b) /\ RLt(a, b)
JsGe(x, y) ==
  LET a == ToNumber(x)
      b == ToNumber(y)
  IN  IsRat(a) /\ IsRat(b) /\ RLe(b, a)
JsGt(x, y) == JsLt(y, x)

\* Math.round: the nearest integer, ties towards +infinity
MathRound(a) == (2 * a.n + a.d) \div (2 * a.d)

\* truthiness of a value (if (x), !x)
Truthy(x) ==
  CASE x.t = "undefined" -> FALSE
    [] x.t = "null" -> FALSE
    [] x.t = "NaN" -> FALSE
    [] x.t = "string" -> x.s # <<>>
    [] IsBig(x) -> TRUE
    [] IsRat(x) -> x.n # 0
    [] OTHER -> TRUE

\* arr[idx] of a JavaScript array: undefined unless idx is an index of arr
ArrayGet(arr, idx) ==
  IF IsInt(idx) /\ idx.n >= 0 /\ idx.n < Len(arr) THEN arr[idx.n + 1] ELSE Undefined

\* how a call ends
Return(v) == [k |-> "return", v |-> v]
Throw(e) == [k |-> "throw", e |-> e]
None == [k |-> "none"]

(***************************************************************************)
(* Texts.  A text is the sequence of its units: a unit is a character, or  *)
(* a run of letters that no pattern of the code splits ("kcal", "Gord:",   *)
(* "saturada"; "monoinsaturada" is the three units "mono", "in",           *)
(* "saturada", so that it contains "saturada" as the real word does).      *)
(* Accented letters are written without their accent.                      *)
(***************************************************************************)
\* String.prototype.includes
Includes(text, pat) ==
  \E i \in 1..(Len(text) - Len(pat) + 1) : SubSeq(text, i, i + Len(pat) - 1) = pat

\* String.prototype.toLowerCase, unit by unit
Lower(c) ==
  CASE c = "Gordura" -> "gordura"
    [] c = "Saturada" -> "saturada"
    [] c = "Mono" -> "mono"
    [] c = "Poli" -> "poli"
    [] c = "Trans" -> "trans"
    [] c = "Carboidrato" -> "carboidrato"
    [] c = "Acucar" -> "acucar"
    [] c = "Proteina" -> "proteina"
    [] c = "Colesterol" -> "colesterol"
    [] c = "Fibra" -> "fibra"
    [] c = "Sodio" -> "sodio"
    [] c = "Potassio" -> "potassio"
    [] c = "Energia" -> "energia"
    [] OTHER -> c
toLowerCase(text) == [i \in 1..Len(text) |-> Lower(text[i])]

IsSpace(c) == c = " "

\* the length of the run of blanks / digits / digits and commas at the start
RECURSIVE SpaceRun(_)
SpaceRun(s) == IF s # <<>> /\ IsSpace(s[1]) THEN 1 + SpaceRun(Tail(s)) ELSE 0
RECURSIVE DigitRun(_)
DigitRun(s) == IF s # <<>> /\ IsDigit(s[1]) THEN 1 + DigitRun(Tail(s)) ELSE 0
RECURSIVE NumRun(_)
NumRun(s) ==
  IF s # <<>> /\ (IsDigit(s[1]) \/ s[1] = ",") THEN 1 + NumRun(Tail(s)) ELSE 0

Drop(s, n) == SubSeq(s, n + 1, Len(s))
Reverse(s) == [i \in 1..Len(s) |-> s[Len(s) + 1 - i]]

\* String.prototype.trim
trim(s) ==
  LET t == Drop(s, SpaceRun(s))
  IN  SubSeq(t, 1, Len(t) - SpaceRun(Reverse(t)))

\* s.replace(a, b) with a string pattern: the first occurrence only
ReplaceFirst(s, a, b) ==
  LET at == {i \in 1..Len(s) : s[i] = a}
  IN  IF at = {} THEN s
      ELSE LET i == CHOOSE k \in at : \A j \in at : k <= j
           IN  [s EXCEPT ![i] = b]

\* the decimal literal at the start of u, given the lengths ni and nf of its
\* integer and fraction digits: NaN when it has no digit
DecimalLiteral(u, ni, nf) ==
  IF ni + nf = 0 THEN NaN
  ELSE Rat(DigitsValue(SubSeq(u, 1, ni)) * Pow10(nf)
             + DigitsValue(SubSeq(u, ni + 2, ni + 1 + nf)),
           Pow10(nf))

\* the length of the run of digits after a point at position ni + 1 of u
FractionRun(u, ni) ==
  IF Len(u) > ni /\ u[ni + 1] = "." THEN DigitRun(Drop(u, ni + 1)) ELSE 0

\* the unsigned decimal literal at the start of u
UnsignedLiteral(u, ni) == DecimalLiteral(u, ni, FractionRun(u, ni))

\* x with the sign that s starts with
WithSignOf(s, x) ==
  IF s # <<>> /\ s[1] = "-" /\ IsRat(x) THEN [x EXCEPT !.n = -x.n] ELSE x

\* s without the sign it starts with
Unsigned(s) == IF s # <<>> /\ s[1] \in {"-", "+"} THEN Tail(s) ELSE s

\* the signed decimal literal at the start of s
SignedLiteral(s) == WithSignOf(s, UnsignedLiteral(Unsigned(s), DigitRun(Unsigned(s))))

\* parseFloat: leading blanks, an optional sign, digits, an optional point
\* and digits; what follows is ignored; NaN when there is no digit
\* (exponents and Infinity do not occur in the texts given to it)
parseFloat(text) == SignedLiteral(Drop(text, SpaceRun(text)))

\* the capture ([\d,]+) at the start of b when \s*<unit> follows it, or Null
CaptureAt(b, n, unit) ==
  IF /\ n > 0
     /\ Len(b) > n + SpaceRun(Drop(b, n))
     /\ b[n + SpaceRun(Drop(b, n)) + 1] = unit
    THEN Str(SubSeq(b, 1, n))
    ELSE Null

\* the same after the blanks at the start of a
CaptureAfterBlanks(a, unit) ==
  CaptureAt(Drop(a, SpaceRun(a)), NumRun(Drop(a, SpaceRun(a))), unit)

\* the capture of /<label>\s*([\d,]+)\s*<unit>/ matched at position i, or Null
MatchAt(text, i, label, unit) ==
  IF text[i] # label THEN Null ELSE CaptureAfterBlanks(Drop(text, i), unit)

\* text.match(/<label>\s*([\d,]+)\s*<unit>/): the leftmost match, or Null
Match(text, label, unit) ==
  LET at == {i \in {j \in 1..Len(text) : text[j] = label} :
               MatchAt(text, i, label, unit) # Null}
  IN  IF at = {} THEN Null
      ELSE MatchAt(text, CHOOSE k \in at : \A j \in at : k <= j, label, unit)

(***************************************************************************)
(* The nutrient vector.                                                    *)
(***************************************************************************)
Fields ==
  {"energy.kj", "energy.kcal", "carbohydrates", "sugar", "protein",
   "fat.total", "fat.saturated", "fat.trans", "fat.monounsaturated",
   "fat.polyunsaturated", "cholesterol", "fiber", "sodium", "potassium"}

\* a page's nutrition facts from the values in thousandths, in the order
\* kj, kcal, carbohydrates, sugar, protein, fat total, saturated, trans,
\* monounsaturated, polyunsaturated, cholesterol, fiber, sodium, potassium
Facts(m) ==
  [f \in Fields |->
     CASE f = "energy.kj" -> Dec(m[1])
       [] f = "energy.kcal" -> Dec(m[2])
       [] f = "carbohydrates" -> Dec(m[3])
       [] f = "sugar" -> Dec(m[4])
       [] f = "protein" -> Dec(m[5])
       [] f = "fat.total" -> Dec(m[6])
       [] f = "fat.saturated" -> Dec(m[7])
       [] f = "fat.trans" -> Dec(m[8])
       [] f = "fat.monounsaturated" -> Dec(m[9])
       [] f = "fat.polyunsaturated" -> Dec(m[10])
       [] f = "cholesterol" -> Dec(m[11])
       [] f = "fiber" -> Dec(m[12])
       [] f = "sodium" -> Dec(m[13])
       [] f = "potassium" -> Dec(m[14])]

(***************************************************************************)
(* The environment: the FatSecret site and the OpenAI completion API.      *)
(***************************************************************************)
\* the foods asked for
ItemChoices ==
  { [foodName |-> "arroz branco", serving |-> Str(<<"2", " ", "c">>)],
    [foodName |-> "feijao", serving |-> Undefined],
    [foodName |-> "carne moida", serving |-> Str(<<>>)] }

\* a row of table.searchResult: a food row (a.prominent with an href), a row
\* without a.prominent, a row whose a.prominent has no href
RowKinds == {"food", "nolink", "nohref"}
RowName(i) == IF i % 2 = 1 THEN "Carne Moida Refogada" ELSE "Carne Moida"
\* the text of .smallText.greyText, as in
\* "por 100 g - Calorias: 212kcal | Gord: 10,85g | Carbs: 0,0g | Prot: 26,77g"
InfoText(calories, fat, carbs, protein) ==
  <<"p", "o", "r", " ", "1", "0", "0", " ", "g", " ", "-", " ", "Calorias:", " ">>
    \o calories \o <<"kcal", " ", "|", " ", "Gord:", " ">>
    \o fat \o <<"g", " ", "|", " ", "Carbs:", " ">>
    \o carbs \o <<"g", " ", "|", " ", "Prot:", " ">>
    \o protein \o <<"g">>
RowInfo(i) ==
  IF i % 2 = 1
    THEN InfoText(<<"2", "1", "2">>, <<"1", "0", ",", "8", "5">>,
                  <<"0", ",", "0">>, <<"2", "6", ",", "7", "7">>)
    ELSE InfoText(<<"1", "5", "6">>, <<"7", ",", "5", "0">>,
                  <<"0", ",", "0", "0">>, <<"2", "0", ",", "7", "0">>)
\* the i-th row of a page: its a.prominent (text and href) and its info text
RowWith(kind, i, info) ==
  [prominent |-> kind # "nolink",
   name |-> RowName(i),
   href |-> IF kind = "food" THEN Int2Num(i) ELSE Undefined,
   info |-> info]
Row(kind, i) == RowWith(kind, i, RowInfo(i))
\* the search pages: every sequence of at most MaxRows rows
SearchPages ==
  UNION { { [i \in 1..n |-> Row(ks[i], i)] : ks \in [1..n -> RowKinds] } : n \in 0..MaxRows }

\* an element below .nutrition_facts: its classes and its text; the next
\* sibling of an element is the one that follows it
Main(label) == [cls |-> {"nutrient", "left"}, text |-> label]
Sub(label) == [cls |-> {"nutrient", "sub", "left"}, text |-> label]
Value(text) == [cls |-> {"nutrient", "tRight"}, text |-> text]

\* a number as the site prints it: a comma for the decimal point
BR(x) == ReplaceFirst(ToString(x), ".", ",")

\* the elements of a page that shows the given facts
FactsEls(facts) ==
  << Main(<<"Energia">>), Value(BR(facts["energy.kj"]) \o <<" ", "kj">>),
     Main(<<>>), Value(BR(facts["energy.kcal"]) \o <<" ", "kcal">>),
     Main(<<"Carboidrato", "s">>), Value(BR(facts["carbohydrates"]) \o <<" ", "g">>),
     Sub(<<"Acucar">>), Value(BR(facts["sugar"]) \o <<" ", "g">>),
     Main(<<"Proteina", "s">>), Value(BR(facts["protein"]) \o <<" ", "g">>),
     Main(<<"Gordura", "s">>), Value(BR(facts["fat.total"]) \o <<" ", "g">>),
     Sub(<<"Gordura", " ", "Saturada">>),
     Value(BR(facts["fat.saturated"]) \o <<" ", "g">>),
     Sub(<<"Gordura", " ", "Trans">>),
     Value(BR(facts["fat.trans"]) \o <<" ", "g">>),
     Sub(<<"Gordura", " ", "Mono", "in", "saturada">>),
     Value(BR(facts["fat.monounsaturated"]) \o <<" ", "g">>),
     Sub(<<"Gordura", " ", "Poli", "in", "saturada">>),
     Value(BR(facts["fat.polyunsaturated"]) \o <<" ", "g">>),
     Main(<<"Colesterol">>), Value(BR(facts["cholesterol"]) \o <<" ", "mg">>),
     Main(<<"Fibra", "s">>), Value(BR(facts["fiber"]) \o <<" ", "g">>),
     Main(<<"Sodio">>), Value(BR(facts["sodium"]) \o <<" ", "mg">>),
     Main(<<"Potassio">>), Value(BR(facts["potassium"]) \o <<" ", "mg">>) >>

\* a page: its h1, the facts it shows and the elements that show them
Page(h1, facts) == [h1 |-> h1, facts |-> facts, els |-> FactsEls(facts)]

\* the body of an error response: no h1, no facts
ErrorPage == [h1 |-> "", facts |-> [f \in Fields |-> Int2Num(0)], els |-> <<>>]

\* the two detail pages of the site: the h1 and the nutrition facts each shows
\* (the first is the sample page of the parser's test, src/src/types.ts:344-360)
CarneMoidaPage ==
  Page("Carne Moida",
       Facts(<<655000, 156000, 0, 0, 20700, 7500, 3154, 490,
               3269, 205, 64000, 0, 66000, 334000>>))
CarneMoidaRefogadaPage ==
  Page("Carne Moida Refogada",
       Facts(<<887000, 212000, 0, 0, 26770, 10850, 4275, 735,
               4685, 325, 89000, 0, 85000, 353000>>))
\* the detail page behind a URL
DetailPage(url) == IF url.n % 2 = 0 THEN CarneMoidaPage ELSE CarneMoidaRefogadaPage

\* what fetch() can do: reject, answer with a non-2xx status, answer 200
FetchReject == [k |-> "reject"]
FetchNotOk(body) == [k |-> "response", ok |-> FALSE, body |-> body]
FetchOk(body) == [k |-> "response", ok |-> TRUE, body |-> body]
\* (the body of a non-2xx response is an error page: no result row, no facts)
SearchResponses == {FetchReject, FetchNotOk(<<>>)} \cup {FetchOk(p) : p \in SearchPages}
DetailResponses(url) == {FetchReject, FetchNotOk(ErrorPage), FetchOk(DetailPage(url))}

\* what openai.chat.completions.create() can do: reject, or resolve with a
\* message whose content is absent or a text.  A text is kept as what
\* JSON.parse makes of it: BadJson when it throws, else the value.
BadJson == [t |-> "badjson"]
Text(json) == [t |-> "text", json |-> json]
OracleReject == [k |-> "reject"]
OracleContent(c) == [k |-> "resolve", content |-> c]
\* the JSON values a reply carries in the property the code reads
SelectPayloads ==
  {Int2Num(k) : k \in 0..(MaxRows + 1)}
    \cup {Rat(3, 2), Rat(2 * MaxRows + 1, 2)}
    \cup {Str(<<"2">>), Str(<<"a">>), Null, Undefined}
ServingPayloads ==
  {Int2Num(150), Int2Num(0), Int2Num(-5), Str(<<"5", "0">>), Str(<<"a">>), Null, Undefined}
Replies(payloads) ==
  {OracleReject, OracleContent(Null), OracleContent(Text(BadJson)),
   OracleContent(Text(Null)), OracleContent(Text(Int2Num(2)))}
    \cup {OracleContent(Text(Obj(v))) : v \in payloads}
SelectReplies == Replies(SelectPayloads)
ServingReplies == Replies(ServingPayloads)

(***************************************************************************)
(* The pure functions of the pipeline.                                     *)
(***************************************************************************)
\* return results.slice(0, 10)
TopResults == 10
Min(a, b) == IF a < b THEN a ELSE b

\* a row test that does not look at the href
IsResultRowAnyLink(row) == row.prominent

\* a row yields a candidate when it has a.prominent and that link an href
IsResultRow(row) == row.prominent /\ Truthy(row.href)

\* the parseNumber of parseSearchResults: 0 without a match, else the
\* capture with its first comma made a point, through parseFloat
parseNumberOfMatch(match) ==
  IF match = Null THEN Int2Num(0)
  ELSE parseFloat(ReplaceFirst(match.s, ",", "."))

\* the candidate pushed for a row
Candidate(row) ==
  [name |-> row.name,
   url |-> row.href,
   caloriesPer100g |-> parseNumberOfMatch(Match(row.info, "Calorias:", "kcal")),
   fatPer100g |-> parseNumberOfMatch(Match(row.info, "Gord:", "g")),
   carbsPer100g |-> parseNumberOfMatch(Match(row.info, "Carbs:", "g")),
   proteinPer100g |-> parseNumberOfMatch(Match(row.info, "Prot:", "g"))]

RECURSIVE EachRow(_)
EachRow(rows) ==
  IF rows = <<>> THEN <<>>
  ELSE (IF IsResultRow(Head(rows)) THEN <<Candidate(Head(rows))>> ELSE <<>>)
         \o EachRow(Tail(rows))

\* a parseSearchResults that returns every candidate
parseSearchResultsUncapped(html) == EachRow(html)

parseSearchResults(html) ==
  LET results == EachRow(html)
  IN  SubSeq(results, 1, Min(Len(results), TopResults))

\* parseSearchResults on each page the site answers a search with (the
\* pages are fixed, so what it returns for each is computed once)
searchResultsOf == [html \in SearchPages |-> parseSearchResults(html)]

\* JSON.parse(content).<property>: throws on text that is no JSON and on the
\* property of null; a primitive has no such property
ParseProperty(content) ==
  IF content.json = BadJson \/ content.json = Null THEN Throw("parse")
  ELSE IF content.json.t = "object" THEN Return(content.json.p)
  ELSE Return(Undefined)

\* a bounds check that lets the index one past the end through (> for >=)
OutOfRangeOffByOne(selectedIndex, length) ==
  JsLt(selectedIndex, Int2Num(0)) \/ JsGt(selectedIndex, Int2Num(length))

\* the bounds check of the selected index
OutOfRange(selectedIndex, length) ==
  JsLt(selectedIndex, Int2Num(0)) \/ JsGe(selectedIndex, Int2Num(length))

\* selectBestMatch from the oracle's message on: content, parse, bounds check
SelectFromContent(searchResults, content) ==
  IF ~Truthy(content) THEN searchResults[1]
  ELSE LET parsed == ParseProperty(content)
       IN  IF parsed.k = "throw" THEN searchResults[1]
           ELSE LET selectedIndex == JsSub(parsed.v, Int2Num(1))
                IN  IF OutOfRange(selectedIndex, Len(searchResults))
                      THEN searchResults[1]
                      ELSE ArrayGet(searchResults, selectedIndex)

\* a status check that lets every response through
NotOkIgnored(resp) == FALSE

\* !response.ok
NotOk(resp) == ~resp.ok

\* an empty-results check that never fires
NoneFoundIgnored(searchResults) == FALSE

\* searchResults.length === 0 of getFoodNutritionalValues
NoneFound(searchResults) == Len(searchResults) = 0

\* a selection that consults the oracle for a single candidate too
NeedsOracleAlways(searchResults) == Len(searchResults) >= 1

\* does selectBestMatch consult the oracle
NeedsOracle(searchResults) == Len(searchResults) >= 2

\* selectBestMatch, given what the oracle call does when it is made
selectBestMatch(foodName, searchResults, reply) ==
  IF Len(searchResults) = 0 THEN Throw("No search results found")
  ELSE IF Len(searchResults) = 1 THEN Return(searchResults[1])
  ELSE IF reply.k = "reject" THEN Throw("openai")
  ELSE Return(SelectFromContent(searchResults, reply.content))

\* calculateServingSize, given what the oracle call does
calculateServingSize(foodName, userServing, foodPageHtml, reply) ==
  IF reply.k = "reject" THEN Throw("openai")
  ELSE IF ~Truthy(reply.content) THEN Return(Int2Num(100))
  ELSE LET parsed == ParseProperty(reply.content)
       IN  IF parsed.k = "throw" THEN Return(Int2Num(100))
           ELSE IF JsGt(parsed.v, Int2Num(0)) THEN Return(parsed.v)
           ELSE Return(Int2Num(100))

\* Math.round(n * 100) / 100
\* (an integer is returned as it is, which is what the formula gives: n * 100
\* of a large integer would not fit the model's integers)
RoundTo2(n) ==
  LET x == ToNumber(n)
  IN  IF IsBig(x) \/ IsInt(x) THEN x
      ELSE IF IsRat(x) THEN Rat(MathRound(RMul(x, Int2Num(100))), 100)
      ELSE NaN

\* a round that truncates: Math.floor(n * 100) / 100
roundFloor(n) ==
  LET x == ToNumber(n)
  IN  IF IsRat(x) THEN Rat((x.n * 100) \div x.d, 100) ELSE x

\* the round of scaleNutritionalValues
round(n) == RoundTo2(n)

\* the round of roundAggregate
roundA(n) == RoundTo2(n)

\* a scaler that does not round
scaleUnrounded(values, multiplier) ==
  [values EXCEPT !.v = [f \in Fields |-> JsMul(values.v[f], multiplier)]]

\* a scaler that clamps negative products to 0
scaleClamped(values, multiplier) ==
  [values EXCEPT !.v =
     [f \in Fields |->
        LET x == round(JsMul(values.v[f], multiplier))
        IN  IF JsLt(x, Int2Num(0)) THEN Int2Num(0) ELSE x]]

scaleNutritionalValues(values, multiplier) ==
  [values EXCEPT !.v = [f \in Fields |-> round(JsMul(values.v[f], multiplier))]]

\* the parseNumber of parseNutritionalValues: digits, commas, points and
\* minus signs are kept, the first comma made a point, then parseFloat || 0
Cleaned(text) ==
  ReplaceFirst(SelectSeq(text, LAMBDA c : IsDigit(c) \/ c \in {",", ".", "-"}), ",", ".")
parseNumber(text) ==
  LET n == parseFloat(Cleaned(text))
  IN  IF Truthy(n) THEN n ELSE Int2Num(0)

\* the value an each() loop leaves: that of the last element that assigns
LastOf(els, at) ==
  IF at = {} THEN Int2Num(0)
  ELSE parseNumber(els[CHOOSE k \in at : \A j \in at : j <= k].text)

\* the loop over .tRight: kj when the text includes "kj", else kcal when it
\* includes "kcal"
energyKj(els) ==
  LastOf(els, {i \in 1..Len(els) :
                 "tRight" \in els[i].cls /\ Includes(els[i].text, <<"kj">>)})
energyKcal(els) ==
  LastOf(els, {i \in 1..Len(els) :
                 /\ "tRight" \in els[i].cls
                 /\ ~Includes(els[i].text, <<"kj">>)
                 /\ Includes(els[i].text, <<"kcal">>)})

\* $el.next().hasClass("tRight")
NextIsTRight(els, i) == i < Len(els) /\ "tRight" \in els[i + 1].cls

\* a findNutrient that also reads the rows of class "sub"
findNutrientAnyRow(els, label) ==
  LET at == {i \in 1..Len(els) :
               /\ {"nutrient", "left"} \subseteq els[i].cls
               /\ Includes(toLowerCase(els[i].text), toLowerCase(label))
               /\ NextIsTRight(els, i)}
  IN  LastOf(els, {i + 1 : i \in at})

\* the last main row (.nutrient with "left", without "sub") whose text
\* includes the label and whose next sibling is a .tRight gives the value
findNutrient(els, label) ==
  LET at == {i \in 1..Len(els) :
               /\ {"nutrient", "left"} \subseteq els[i].cls
               /\ "sub" \notin els[i].cls
               /\ Includes(toLowerCase(els[i].text), toLowerCase(label))
               /\ NextIsTRight(els, i)}
  IN  LastOf(els, {i + 1 : i \in at})

\* a match of the sub-row's text by substring for every label
isMatchBySubstring(text, labelLower) == Includes(text, labelLower)

\* the match of a sub-row's text: exact for "saturada", by substring otherwise
isMatch(text, labelLower) ==
  IF labelLower = <<"saturada">>
    THEN text = <<"gordura", " ", "saturada">>
  ELSE IF labelLower = <<"mono", "in", "saturada">>
    THEN Includes(text, <<"mono", "in", "saturada">>)
  ELSE IF labelLower = <<"poli", "in", "saturada">>
    THEN Includes(text, <<"poli", "in", "saturada">>)
  ELSE Includes(text, labelLower)

findSubNutrient(els, label) ==
  LET at == {i \in 1..Len(els) :
               /\ {"nutrient", "sub", "left"} \subseteq els[i].cls
               /\ isMatch(trim(toLowerCase(els[i].text)), toLowerCase(label))
               /\ NextIsTRight(els, i)}
  IN  LastOf(els, {i + 1 : i \in at})

\* the page's name (h1, else the given name) and the 14 values read from it
parseNutritionalValues(html, foodName) ==
  [name |-> IF html.h1 # "" THEN html.h1 ELSE foodName,
   servingSize |-> <<"100 g">>,
   v |-> [f \in Fields |->
            CASE f = "energy.kj" -> energyKj(html.els)
              [] f = "energy.kcal" -> energyKcal(html.els)
              [] f = "carbohydrates" -> findNutrient(html.els, <<"carboidrato">>)
              [] f = "sugar" -> findSubNutrient(html.els, <<"acucar">>)
              [] f = "protein" -> findNutrient(html.els, <<"proteina">>)
              [] f = "fat.total" -> findNutrient(html.els, <<"gordura">>)
              [] f = "fat.saturated" -> findSubNutrient(html.els, <<"saturada">>)
              [] f = "fat.trans" -> findSubNutrient(html.els, <<"trans">>)
              [] f = "fat.monounsaturated" ->
                   findSubNutrient(html.els, <<"mono", "in", "saturada">>)
              [] f = "fat.polyunsaturated" ->
                   findSubNutrient(html.els, <<"poli", "in", "saturada">>)
              [] f = "cholesterol" -> findNutrient(html.els, <<"colesterol">>)
              [] f = "fiber" -> findNutrient(html.els, <<"fibra">>)
              [] f = "sodium" -> findNutrient(html.els, <<"sodio">>)
              [] f = "potassium" -> findNutrient(html.els, <<"potassio">>)]]

\* parseNutritionalValues on each detail page of the site and each name a
\* candidate can have (computed once, as above)
nutritionalValuesOf ==
  [html \in {CarneMoidaPage, CarneMoidaRefogadaPage}, foodName \in {RowName(1), RowName(2)} |->
     parseNutritionalValues(html, foodName)]

\* an empty aggregate that lacks its last field
createEmptyAggregateNoPotassium ==
  [f \in Fields |-> IF f = "potassium" THEN Undefined ELSE Int2Num(0)]

createEmptyAggregate == [f \in Fields |-> Int2Num(0)]

\* an addToAggregate that rounds the running sum after every addition
addToAggregateRounding(aggregate, values) ==
  [f \in Fields |-> RoundTo2(JsAdd(aggregate[f], values.v[f]))]

addToAggregate(aggregate, values) ==
  [f \in Fields |-> JsAdd(aggregate[f], values.v[f])]

roundAggregate(aggregate) == [f \in Fields |-> roundA(aggregate[f])]

\* itemDetails.unshift(d)
unshift(arr, d) == <<d>> \o arr

\* itemDetails.push(d)
push(arr, d) == Append(arr, d)

(***************************************************************************)
(* One call of getAggregateNutritionalValues.                              *)
(***************************************************************************)
VARIABLES
  items,              \* options.items
  pc,                 \* "init", "running", "done" (returned), "failed" (threw);
                      \* "idle" when no aggregate call is made
  cur,                \* the position of the for loop in items
  pending,            \* the external calls in flight
  aggregate,          \* running sums
  totalGrams,         \* running gram total
  itemDetails,        \* details of the items resolved so far
  searchResults,      \* of the resolution in progress
  bestMatch,          \* of the resolution in progress
  nutritionalValues,  \* of the resolution in progress
  calls,              \* the external calls the resolution in progress has made
  result,             \* what the aggregate call returned
  ev,                 \* what the last step's function calls were given and did
  app,                \* a pure function applied on its own: its input and output
  appSecret,          \* META_APP_SECRET
  http,               \* the POST /webhook handled and its response
  procs,              \* the calls of processIncomingMessage, in start order
  users,              \* table user: the whatsapp_id of each row
  chats,              \* table chat: the user_id of each row, in creation order
  chatMessages,       \* table chat_message, in creation order
  meals,              \* table meal: the number of rows
  frames,             \* the local variables of each suspended aggregate call
  alone,              \* those of the call that ran alone, once it has ended
  me,                 \* the aggregate call that runs
  world               \* what the external services answer to each request

\* the variables of one aggregate call, of the server, of concurrent calls
pipeline ==
  <<items, pc, cur, pending, aggregate, totalGrams, itemDetails, searchResults,
    bestMatch, nutritionalValues, calls, result, ev, app>>
server == <<appSecret, http, procs, users, chats, chatMessages, meals>>
concurrent == <<frames, alone, me, world>>
vars == <<pipeline, server, concurrent>>

\* no server runs
NoServer ==
  /\ appSecret = Undefined
  /\ http = None
  /\ procs = <<>>
  /\ users = {}
  /\ chats = <<>>
  /\ chatMessages = <<>>
  /\ meals = 0

\* one aggregate call only
NoConcurrent ==
  /\ frames = <<>>
  /\ alone = None
  /\ me = 0
  /\ world = None

SearchCall(i) == [kind |-> "search", item |-> i, url |-> [t |-> "search", q |-> items[i].foodName]]
SelectCall(i) == [kind |-> "select", item |-> i, url |-> Undefined]
DetailCall(i, url) == [kind |-> "detail", item |-> i, url |-> url]
ServingCall(i) == [kind |-> "serving", item |-> i, url |-> Undefined]

\* sel: selectBestMatch's candidates, reply and outcome; srv: the reply and
\* outcome of calculateServingSize; food: the outcome of
\* getFoodNutritionalValues; fetch: how the fetch that settled ended ("none"
\* when none did); found: the candidates parsed from the search page
NoEv == [sel |-> None, srv |-> None, food |-> None, fetch |-> "none", found |-> None]

Init ==
  /\ items \in UNION {[1..n -> ItemChoices] : n \in 0..MaxItems}
  /\ pc = "init"
  /\ cur = 0
  /\ pending = {}
  /\ aggregate = createEmptyAggregate
  /\ totalGrams = Int2Num(0)
  /\ itemDetails = <<>>
  /\ searchResults = <<>>
  /\ bestMatch = Undefined
  /\ nutritionalValues = Undefined
  /\ calls = <<>>
  /\ result = None
  /\ ev = NoEv
  /\ app = None
  /\ NoServer
  /\ NoConcurrent

\* an aggregate call over at most 3 items
InitUpTo3 ==
  /\ items \in UNION {[1..n -> ItemChoices] : n \in 0..3}
  /\ pc = "init"
  /\ cur = 0
  /\ pending = {}
  /\ aggregate = createEmptyAggregate
  /\ totalGrams = Int2Num(0)
  /\ itemDetails = <<>>
  /\ searchResults = <<>>
  /\ bestMatch = Undefined
  /\ nutritionalValues = Undefined
  /\ calls = <<>>
  /\ result = None
  /\ ev = NoEv
  /\ app = None
  /\ NoServer
  /\ NoConcurrent

\* getFoodNutritionalValues up to its first await: the search fetch
StartFood(i) ==
  /\ pending' = {SearchCall(i)}
  /\ calls' = <<SearchCall(i)>>
  /\ searchResults' = <<>>
  /\ bestMatch' = Undefined
  /\ nutritionalValues' = Undefined

\* a loop that catches the failure of an item and goes on with the next
ItemThrewSkipped(e) ==
  /\ UNCHANGED <<aggregate, totalGrams, itemDetails>>
  /\ IF cur < Len(items)
       THEN /\ cur' = cur + 1
            /\ StartFood(cur + 1)
            /\ UNCHANGED <<pc, result>>
       ELSE /\ pc' = "done"
            /\ result' = Return([itemCount |-> Len(items),
                                 totalGrams |-> RoundTo2(totalGrams),
                                 totals |-> roundAggregate(aggregate),
                                 items |-> itemDetails])
            /\ pending' = {}
            /\ UNCHANGED <<cur, calls, searchResults, bestMatch, nutritionalValues>>

\* the resolution of the current item threw: nothing in the loop or around it
\* catches, so the aggregate call rejects
ItemThrew(e) ==
  /\ pc' = "failed"
  /\ pending' = {}
  /\ UNCHANGED <<cur, aggregate, totalGrams, itemDetails, result,
                 searchResults, bestMatch, nutritionalValues, calls>>

\* the rest of the loop body once the current item is resolved, then the
\* next item or the return
ItemResolved(res) ==
  LET item == items[cur]
      gramsAmount ==
        IF res.serving = Undefined \/ res.serving.gramsAmount \in {Undefined, Null}
          THEN Int2Num(100) ELSE res.serving.gramsAmount
      grams == JsAdd(totalGrams, gramsAmount)
      sums == addToAggregate(aggregate, res.nutritionalValues)
      details ==
        push(itemDetails,
             [foodName |-> item.foodName,
              selectedFood |-> res.selectedFood,
              serving |-> item.serving,
              gramsAmount |-> gramsAmount,
              nutritionalValues |-> res.nutritionalValues,
              sourceUrl |-> res.sourceUrl])
  IN  /\ totalGrams' = grams
      /\ aggregate' = sums
      /\ itemDetails' = details
      /\ IF cur < Len(items)
           THEN /\ cur' = cur + 1
                /\ StartFood(cur + 1)
                /\ UNCHANGED <<pc, result>>
           ELSE /\ pc' = "done"
                /\ result' = Return([itemCount |-> Len(items),
                                     totalGrams |-> RoundTo2(grams),
                                     totals |-> roundAggregate(sums),
                                     items |-> details])
                /\ pending' = {}
                /\ UNCHANGED <<cur, calls, searchResults, bestMatch, nutritionalValues>>

\* getAggregateNutritionalValues is called
Call ==
  /\ pc = "init"
  /\ UNCHANGED <<app, server, concurrent>>
  /\ ev' = NoEv
  /\ UNCHANGED <<items, aggregate, totalGrams, itemDetails>>
  /\ IF Len(items) = 0
       THEN /\ pc' = "done"
            /\ result' = Return([itemCount |-> 0,
                                 totalGrams |-> Int2Num(0),
                                 totals |-> createEmptyAggregate,
                                 items |-> <<>>])
            /\ UNCHANGED <<cur, pending, searchResults, bestMatch, nutritionalValues, calls>>
       ELSE /\ pc' = "running"
            /\ cur' = 1
            /\ StartFood(1)
            /\ UNCHANGED result

\* how a settled fetch ended
Status(resp) ==
  IF resp.k = "reject" THEN "reject" ELSE IF resp.ok THEN "ok" ELSE "notok"

\* getFoodNutritionalValues after selectBestMatch returned: the read of
\* bestMatch.url and the detail fetch (fetch: what the step has recorded of
\* the search fetch, when it settled in the same step)
FetchFoodPage(found, selected, sel, fetch) ==
  IF selected = Undefined
    THEN /\ ev' = [NoEv EXCEPT !.sel = sel, !.food = Throw("TypeError"),
                               !.fetch = fetch.fetch, !.found = fetch.found]
         /\ ItemThrew("TypeError")
    ELSE /\ ev' = [NoEv EXCEPT !.sel = sel, !.fetch = fetch.fetch, !.found = fetch.found]
         /\ searchResults' = found
         /\ bestMatch' = selected
         /\ pending' = {DetailCall(cur, selected.url)}
         /\ calls' = Append(calls, DetailCall(cur, selected.url))
         /\ UNCHANGED <<pc, cur, aggregate, totalGrams, itemDetails, result,
                        nutritionalValues>>

\* the search fetch settles
SearchResponse ==
  /\ pc = "running"
  /\ UNCHANGED <<app, server, concurrent>>
  /\ \E r \in pending, resp \in SearchResponses :
       /\ r.kind = "search"
       /\ UNCHANGED items
       /\ IF resp.k = "reject"
            THEN /\ ev' = [NoEv EXCEPT !.food = Throw("fetch failed"),
                                       !.fetch = Status(resp)]
                 /\ ItemThrew("fetch failed")
            ELSE IF NotOk(resp)
              THEN /\ ev' = [NoEv EXCEPT !.food = Throw("Failed to fetch search results"),
                                         !.fetch = Status(resp)]
                   /\ ItemThrew("Failed to fetch search results")
              ELSE LET found == searchResultsOf[resp.body]
                       fetched == [NoEv EXCEPT !.fetch = Status(resp),
                                               !.found = Return(found)]
                   IN  IF NoneFound(found)
                         THEN /\ ev' = [fetched EXCEPT !.food = Throw("No food items found")]
                              /\ ItemThrew("No food items found")
                         ELSE IF NeedsOracle(found)
                           THEN /\ ev' = fetched
                                /\ searchResults' = found
                                /\ pending' = {SelectCall(cur)}
                                /\ calls' = Append(calls, SelectCall(cur))
                                /\ UNCHANGED <<pc, cur, aggregate, totalGrams, itemDetails,
                                               result, bestMatch, nutritionalValues>>
                           ELSE LET out == selectBestMatch(items[cur].foodName, found, None)
                                    sel == [cands |-> found, reply |-> None, out |-> out]
                                IN  IF out.k = "throw"
                                      THEN /\ ev' = [fetched EXCEPT !.sel = sel,
                                                                    !.food = Throw(out.e)]
                                           /\ ItemThrew(out.e)
                                      ELSE FetchFoodPage(found, out.v, sel, fetched)

\* the selection oracle call settles: the rest of selectBestMatch
SelectResponse ==
  /\ pc = "running"
  /\ UNCHANGED <<app, server, concurrent>>
  /\ \E r \in pending, reply \in SelectReplies :
       /\ r.kind = "select"
       /\ UNCHANGED items
       /\ LET out == selectBestMatch(items[cur].foodName, searchResults, reply)
              sel == [cands |-> searchResults, reply |-> reply, out |-> out]
          IN  IF out.k = "throw"
                THEN /\ ev' = [NoEv EXCEPT !.sel = sel, !.food = Throw(out.e)]
                     /\ ItemThrew(out.e)
                ELSE FetchFoodPage(searchResults, out.v, sel, NoEv)

\* a result that never carries serving information
FoodResponseNoServing(foodName, values, servingInfo) ==
  [searchQuery |-> foodName,
   selectedFood |-> bestMatch.name,
   nutritionalValues |-> values,
   sourceUrl |-> bestMatch.url,
   serving |-> Undefined]

\* what getFoodNutritionalValues returns
FoodResponse(foodName, values, servingInfo) ==
  [searchQuery |-> foodName,
   selectedFood |-> bestMatch.name,
   nutritionalValues |-> values,
   sourceUrl |-> bestMatch.url,
   serving |-> servingInfo]

\* the detail fetch settles
DetailResponse ==
  /\ pc = "running"
  /\ UNCHANGED <<app, server, concurrent>>
  /\ \E r \in pending :
       /\ r.kind = "detail"
       /\ \E resp \in DetailResponses(r.url) :
            /\ UNCHANGED items
            /\ IF resp.k = "reject"
                 THEN /\ ev' = [NoEv EXCEPT !.food = Throw("fetch failed"),
                                            !.fetch = Status(resp)]
                      /\ ItemThrew("fetch failed")
                 ELSE IF NotOk(resp)
                   THEN /\ ev' = [NoEv EXCEPT !.food = Throw("Failed to fetch food page"),
                                              !.fetch = Status(resp)]
                        /\ ItemThrew("Failed to fetch food page")
                   ELSE LET values == nutritionalValuesOf[resp.body, bestMatch.name]
                        IN  IF Truthy(items[cur].serving)
                              THEN /\ ev' = [NoEv EXCEPT !.fetch = Status(resp)]
                                   /\ nutritionalValues' = values
                                   /\ pending' = {ServingCall(cur)}
                                   /\ calls' = Append(calls, ServingCall(cur))
                                   /\ UNCHANGED <<pc, cur, aggregate, totalGrams,
                                                  itemDetails, result, searchResults,
                                                  bestMatch>>
                              ELSE LET res == FoodResponse(items[cur].foodName, values,
                                                           Undefined)
                                   IN  /\ ev' = [NoEv EXCEPT !.food = Return(res),
                                                             !.fetch = Status(resp)]
                                       /\ ItemResolved(res)

\* the serving oracle call settles: the rest of calculateServingSize, the
\* scaling and the return of getFoodNutritionalValues
ServingResponse ==
  /\ pc = "running"
  /\ UNCHANGED <<app, server, concurrent>>
  /\ \E r \in pending, reply \in ServingReplies :
       /\ r.kind = "serving"
       /\ UNCHANGED items
       /\ LET serving == items[cur].serving
              out == calculateServingSize(items[cur].foodName, serving, Undefined, reply)
              srv == [reply |-> reply, out |-> out]
          IN  IF out.k = "throw"
                THEN /\ ev' = [NoEv EXCEPT !.srv = srv, !.food = Throw(out.e)]
                     /\ ItemThrew(out.e)
                ELSE LET gramsAmount == out.v
                         multiplier == JsDiv(gramsAmount, Int2Num(100))
                         scaled == scaleNutritionalValues(nutritionalValues, multiplier)
                         values == [scaled EXCEPT !.servingSize =
                                      ToString(gramsAmount) \o <<"g", " ", "(">>
                                        \o serving.s \o <<")">>]
                         servingInfo == [userServing |-> serving,
                                         gramsAmount |-> gramsAmount,
                                         multiplier |-> multiplier]
                         res == FoodResponse(items[cur].foodName, values, servingInfo)
                     IN  /\ ev' = [NoEv EXCEPT !.srv = srv, !.food = Return(res)]
                         /\ ItemResolved(res)

Next ==
  \/ Call
  \/ SearchResponse
  \/ SelectResponse
  \/ DetailResponse
  \/ ServingResponse

Spec == Init /\ [][Next]_vars

SpecUpTo3 == InitUpTo3 /\ [][Next]_vars

(***************************************************************************)
(* The parsers and the scaler applied on their own, to inputs the sample   *)
(* pages do not cover.                                                     *)
(***************************************************************************)
\* values of a nutrient field, in thousandths: zero, ties of the rounding to
\* 2 decimals of either sign, values with 1, 2 and 3 decimals
ScaleThousandths ==
  <<0, 125, -125, 3154, 5, -5, 7500, 1005, 655000, 490, -490, 12345, 1, -1>>
\* the vector whose i-th field is the (i + k)-th of these values
ScaleVector(k) ==
  [name |-> "Carne Moida",
   servingSize |-> <<"100 g">>,
   v |-> Facts([i \in 1..14 |-> ScaleThousandths[((i + k) % 14) + 1]])]
ScaleVectors == {ScaleVector(k) : k \in 0..13}
Multipliers ==
  {Int2Num(1), Int2Num(2), Rat(1, 2), Rat(3, 2), Int2Num(-1), Int2Num(0),
   Rat(5, 8), Rat(1, 100)}

\* info texts of a row: the sample, none, a capture that is a lone comma, a
\* label without its unit, a capture with two commas
InfoTexts ==
  { RowInfo(1),
    <<>>,
    InfoText(<<",">>, <<"1", "0">>, <<",", "5">>, <<"7", ",">>),
    <<"Calorias:", " ", "2", "1", "2", " ", "|", " ", "Gord:", "g">>,
    InfoText(<<"1", ",", "2", ",", "3">>, <<",", ",">>, <<"0">>, <<"0", "0", "7">>) }
\* every page of at most maxRows rows of any kind and info text
ShortPages(maxRows) ==
  UNION { { [i \in 1..n |-> RowWith(ks[i], i, ts[i])] :
              ks \in [1..n -> RowKinds], ts \in [1..n -> InfoTexts] } :
          n \in 0..maxRows }
\* the pages of up to maxFoodRows food rows
FoodPages(maxFoodRows) == { [i \in 1..n |-> Row("food", i)] : n \in 0..maxFoodRows }
\* the same with one row that is no food row
HoledPages(maxFoodRows) ==
  UNION { UNION { { [i \in 1..n |-> Row(IF i = k THEN kind ELSE "food", i)] :
                      kind \in {"nolink", "nohref"} } :
                  k \in 1..n } :
          n \in 1..maxFoodRows }
SearchInputs(maxRows, maxFoodRows) ==
  ShortPages(maxRows) \cup FoodPages(maxFoodRows) \cup HoledPages(maxFoodRows)

\* the three sub-rows of the fats, each with its value
FatRow(which) ==
  CASE which = "saturated" ->
         <<Sub(<<"Gordura", " ", "Saturada">>), Value(<<"3", ",", "1", "5", "4", " ", "g">>)>>
    [] which = "monounsaturated" ->
         <<Sub(<<"Gordura", " ", "Mono", "in", "saturada">>),
           Value(<<"3", ",", "2", "6", "9", " ", "g">>)>>
    [] which = "polyunsaturated" ->
         <<Sub(<<"Gordura", " ", "Poli", "in", "saturada">>),
           Value(<<"0", ",", "2", "0", "5", " ", "g">>)>>
FatRowNames == {"saturated", "monounsaturated", "polyunsaturated"}

RECURSIVE Flatten(_)
Flatten(rows) == IF rows = <<>> THEN <<>> ELSE Head(rows) \o Flatten(Tail(rows))

\* the pages that show a subset of the three sub-rows, in any order
FatRowOrders ==
  UNION { { q \in [1..n -> FatRowNames] : \A i, j \in 1..n : q[i] = q[j] => i = j } :
          n \in 0..3 }
FatRowPages ==
  { [h1 |-> "", names |-> q, els |-> Flatten([i \in 1..Len(q) |-> FatRow(q[i])])] :
      q \in FatRowOrders }

\* label elements: a main row, two sub-rows (one with blanks around its
\* text), an element of unrelated HTML
LabelEls ==
  { Main(<<"Gordura", "s">>),
    Sub(<<"Gordura", " ", "Saturada">>),
    Sub(<<" ", "Gordura", " ", "Mono", "in", "saturada", " ">>),
    [cls |-> {}, text |-> <<"a">>] }
\* value elements: a value, a value with a minus sign, no text, a value
\* after "<", two points, a lone minus sign, an energy, a value that is no
\* .tRight
ValueEls ==
  { Value(t) : t \in { <<"7", ",", "5", " ", "g">>,
                       <<"-", "5", " ", "g">>,
                       <<>>,
                       <<"<", " ", "1", " ", "g">>,
                       <<"1", ".", "2", ".", "3">>,
                       <<"-">>,
                       <<"1", "5", "6", " ", "kcal">> } }
    \cup { [cls |-> {"nutrient"}, text |-> <<"9", " ", "g">>] }
\* every page of at most maxFactRows pairs of a label and a value element
PairPages(maxFactRows) ==
  UNION { { [h1 |-> "", names |-> <<>>,
             els |-> Flatten([i \in 1..n |-> <<ls[i], vs[i]>>])] :
              ls \in [1..n -> LabelEls], vs \in [1..n -> ValueEls] } :
          n \in 0..maxFactRows }
NutritionInputs(maxFactRows) == FatRowPages \cup PairPages(maxFactRows)

\* a function about to be applied to an input
Applied(fn, arg) == [fn |-> fn, arg |-> arg, out |-> None]

InitFn ==
  /\ items = <<>>
  /\ pc = "idle"
  /\ cur = 0
  /\ pending = {}
  /\ aggregate = createEmptyAggregate
  /\ totalGrams = Int2Num(0)
  /\ itemDetails = <<>>
  /\ searchResults = <<>>
  /\ bestMatch = Undefined
  /\ nutritionalValues = Undefined
  /\ calls = <<>>
  /\ result = None
  /\ ev = NoEv
  /\ app \in { Applied("scaleNutritionalValues", <<v, m>>) :
                 v \in ScaleVectors, m \in Multipliers }
          \cup { Applied("parseSearchResults", <<html>>) : html \in SearchInputs(MaxRows, MaxFoodRows) }
          \cup { Applied("parseNutritionalValues", <<html, "Carne Moida">>) :
                   html \in NutritionInputs(MaxFactRows) }
  /\ NoServer
  /\ NoConcurrent

ApplyScale ==
  /\ app.fn = "scaleNutritionalValues"
  /\ app.out = None
  /\ app' = [app EXCEPT !.out = Return(scaleNutritionalValues(app.arg[1], app.arg[2]))]
  /\ UNCHANGED <<items, pc, cur, pending, aggregate, totalGrams, itemDetails,
                 searchResults, bestMatch, nutritionalValues, calls, result, ev>>
  /\ UNCHANGED <<server, concurrent>>

ApplyParseSearchResults ==
  /\ app.fn = "parseSearchResults"
  /\ app.out = None
  /\ app' = [app EXCEPT !.out = Return(parseSearchResults(app.arg[1]))]
  /\ UNCHANGED <<items, pc, cur, pending, aggregate, totalGrams, itemDetails,
                 searchResults, bestMatch, nutritionalValues, calls, result, ev>>
  /\ UNCHANGED <<server, concurrent>>

ApplyParseNutritionalValues ==
  /\ app.fn = "parseNutritionalValues"
  /\ app.out = None
  /\ app' = [app EXCEPT !.out = Return(parseNutritionalValues(app.arg[1], app.arg[2]))]
  /\ UNCHANGED <<items, pc, cur, pending, aggregate, totalGrams, itemDetails,
                 searchResults, bestMatch, nutritionalValues, calls, result, ev>>
  /\ UNCHANGED <<server, concurrent>>

NextFn ==
  \/ ApplyScale
  \/ ApplyParseSearchResults
  \/ ApplyParseNutritionalValues

SpecFn == InitFn /\ [][NextFn]_vars

(***************************************************************************)
(* The webhook server (server.ts): one POST /webhook and the processing of *)
(* the messages it carries.  Each processIncomingMessage is a process of   *)
(* procs; a step of a process runs it from an await to the next one.       *)
(***************************************************************************)
ALLOWED_PHONE_NUMBERS == {"5519992932912", "5519995666244"}

\* a text message, a text message without body, an image, a text message of
\* a sender that is not allowed
InboundMessages ==
  { [from |-> "5519992932912", type |-> "text", body |-> Str(<<"oi">>)],
    [from |-> "5519992932912", type |-> "text", body |-> Str(<<>>)],
    [from |-> "5519992932912", type |-> "image", body |-> Undefined],
    [from |-> "5511900000000", type |-> "text", body |-> Str(<<"oi">>)] }

\* request bodies: text that is no JSON, a payload of another object, the
\* payloads of a WhatsApp account with their messages in document order,
\* each with its id
Numbered(ms) ==
  [k \in 1..Len(ms) |->
     [id |-> k, from |-> ms[k].from, type |-> ms[k].type, body |-> ms[k].body]]
Batches == { Numbered(ms) : ms \in UNION {[1..n -> InboundMessages] : n \in 0..MaxMessages} }
Bodies ==
  { [json |-> FALSE, object |-> "", messages |-> <<>>] }
    \cup { [json |-> TRUE, object |-> "page", messages |-> ms] :
             ms \in {b \in Batches : Len(b) = 1} }
    \cup { [json |-> TRUE, object |-> "whatsapp_business_account", messages |-> ms] :
             ms \in Batches }

\* "sha256=" + createHmac("sha256", secret).update(rawBody).digest("hex")
Expected(secret, rawBody) == <<"sha256=", [key |-> secret, of |-> rawBody]>>

\* the X-Hub-Signature-256 header: absent, that of the secret, that of
\* another key, of another length
Signatures(rawBody) ==
  { Null,
    Str(Expected(<<"secret">>, rawBody)),
    Str(Expected(<<"forged">>, rawBody)),
    Str(<<"sha256=">>) }

Requests ==
  UNION { { [body |-> b, signature |-> s] : s \in Signatures(b) } : b \in Bodies }

\* true without secret or without signature; else timingSafeEqual, which
\* throws on buffers of different lengths (caught: false)
verifySignature(APP_SECRET, rawBody, signature) ==
  IF ~Truthy(APP_SECRET) \/ ~Truthy(signature) THEN TRUE
  ELSE LET expected == Expected(APP_SECRET.s, rawBody)
       IN  IF Len(signature.s) # Len(expected) THEN FALSE
           ELSE signature.s = expected

\* the messages of the changes of field "messages" of a payload
MessagesOf(payload) ==
  IF payload.object = "whatsapp_business_account" THEN payload.messages ELSE <<>>

\* processIncomingMessage(message) up to its first await, the select of
\* getOrCreateUser.  sends: the texts given to sendWhatsAppMessage; asked:
\* the calls to openai.chat.completions.create; caught: what the catch of
\* line 943 was given; out: how the call ended
Proc(message) ==
  [message |-> message, pc |-> "selectUser", dbUser |-> "", dbChat |-> 0,
   messagesWithDate |-> <<>>, assistantMessage |-> Undefined, toolCall |-> 0,
   rounds |-> 0, finalResponse |-> Undefined, sends |-> <<>>, asked |-> 0,
   aggregateCalls |-> 0, caught |-> "", out |-> ""]

ErrorMessage == Str(<<"Ocorreu um erro ao processar sua mensagem">>)
NoReply == Str(<<"Desculpe, nao consegui processar sua mensagem">>)
UnknownTool == Str(<<"Ferramenta desconhecida">>)
Unidentified == Str(<<"Nao consegui identificar os alimentos">>)
Unprocessable == Str(<<"Erro ao processar os alimentos">>)
NoFood == Str(<<"Nao encontrei nenhum alimento">>)
NutritionalResponse == Str(<<"Analise Nutricional">>)
MealHistory == Str(<<"Refeicoes">>)

\* the tool calls a model response may request
ToolCall(id, name, arguments) == [id |-> id, name |-> name, arguments |-> arguments]
ToolCallLists ==
  { <<ToolCall("call_1", "get_weather", "json"),
      ToolCall("call_2", "analyze_meal", "json"),
      ToolCall("call_3", "get_weather", "json")>>,
    <<ToolCall("call_1", "lookup_meal_history", "json")>>,
    <<ToolCall("call_1", "analyze_meal", "no json")>> }

\* response.choices[0]?.message of the chat model: none, a reply, a request
\* of tool calls
Message(content, tool_calls) ==
  [role |-> "assistant", content |-> content, tool_calls |-> tool_calls]
ModelMessages ==
  { Undefined, Message(Str(<<"resposta">>), <<>>) }
    \cup { Message(Null, l) : l \in ToolCallLists }

\* the catch of line 943: the error message is given to sendWhatsAppMessage
Caught(p, error) ==
  [p EXCEPT !.pc = "sendError", !.caught = error, !.sends = Append(@, ErrorMessage)]

\* return from processIncomingMessage
Done(p) == [p EXCEPT !.pc = "done", !.out = "returned"]

\* a loop that gives no result for a tool it does not know
PushNothing(p, content) == p

\* messagesWithDate.push({ role: "tool", tool_call_id, content })
PushToolResult(p, content) ==
  [p EXCEPT !.messagesWithDate =
     Append(@, [role |-> "tool",
                tool_call_id |-> p.assistantMessage.tool_calls[p.toolCall].id,
                content |-> content])]

\* the for loop over tool_calls from its k-th call to the next await: a
\* tool's own first await, or the follow-up call to the model
RECURSIVE ExecuteToolCalls(_, _)
ExecuteToolCalls(p, k) ==
  IF k > Len(p.assistantMessage.tool_calls)
    THEN [p EXCEPT !.pc = "model", !.toolCall = 0, !.asked = @ + 1]
  ELSE LET toolCall == p.assistantMessage.tool_calls[k]
           q == [p EXCEPT !.toolCall = k]
       IN  IF toolCall.arguments # "json" THEN Caught(q, "SyntaxError")
           ELSE IF toolCall.name = "analyze_meal"
             THEN [q EXCEPT !.pc = "parseMeal", !.asked = @ + 1]
           ELSE IF toolCall.name = "lookup_meal_history"
             THEN [q EXCEPT !.pc = "lookup"]
           ELSE ExecuteToolCalls(PushToolResult(q, UnknownTool), k + 1)

\* the tool call in progress returned: its result is pushed, the loop goes on
ToolReturned(p, toolResult) ==
  ExecuteToolCalls(PushToolResult(p, toolResult), p.toolCall + 1)

\* the while loop's test on a model response, then its body or the final
\* response up to saveOutboundMessage
OnAssistantMessage(p, message) ==
  LET q == [p EXCEPT !.assistantMessage = message]
  IN  IF message # Undefined /\ Len(message.tool_calls) > 0
        THEN ExecuteToolCalls(
               [q EXCEPT !.messagesWithDate = Append(@, message), !.rounds = @ + 1], 1)
        ELSE [q EXCEPT !.pc = "saveOutbound",
                       !.finalResponse =
                         IF message # Undefined /\ Truthy(message.content)
                           THEN message.content ELSE NoReply]

\* the rows of a chat, oldest first (far fewer than the limit of 100)
getConversationHistory(rows, chatId) == SelectSeq(rows, LAMBDA m : m.chatId = chatId)

convertToOpenAIMessages(messages) ==
  LET withContent == SelectSeq(messages, LAMBDA m : Truthy(m.content))
  IN  [i \in 1..Len(withContent) |->
         [role |-> IF withContent[i].direction = "inbound" THEN "user" ELSE "assistant",
          content |-> withContent[i].content]]

\* the latest chat of a user, 0 when there is none
LatestChat(rows, userId) ==
  IF \E c \in 1..Len(rows) : rows[c] = userId
    THEN CHOOSE c \in 1..Len(rows) :
           rows[c] = userId /\ \A d \in 1..Len(rows) : rows[d] = userId => d <= c
    ELSE 0

\* no aggregate call runs
InitPipelineIdle ==
  /\ items = <<>>
  /\ pc = "idle"
  /\ cur = 0
  /\ pending = {}
  /\ aggregate = createEmptyAggregate
  /\ totalGrams = Int2Num(0)
  /\ itemDetails = <<>>
  /\ searchResults = <<>>
  /\ bestMatch = Undefined
  /\ nutritionalValues = Undefined
  /\ calls = <<>>
  /\ result = None
  /\ ev = NoEv
  /\ app = None
  /\ NoConcurrent

InitServer ==
  /\ InitPipelineIdle
  /\ appSecret \in {Undefined, Str(<<"secret">>)}
  /\ http = None
  /\ procs = <<>>
  /\ users = {}
  /\ chats = <<>>
  /\ chatMessages = <<>>
  /\ meals = 0

\* POST /webhook: 403 on a refused signature, 200 on a body that is no
\* JSON, else every message's processing is started and 200 is answered
handleWebhook(req) ==
  /\ http = None
  /\ IF ~verifySignature(appSecret, req.body, req.signature)
       THEN /\ http' = [req |-> req, status |-> 403, started |-> 0]
            /\ UNCHANGED procs
     ELSE IF ~req.body.json
       THEN /\ http' = [req |-> req, status |-> 200, started |-> 0]
            /\ UNCHANGED procs
     ELSE LET messages == MessagesOf(req.body)
          IN  /\ procs' = [i \in 1..Len(messages) |-> Proc(messages[i])]
              /\ http' = [req |-> req, status |-> 200, started |-> Len(messages)]
  /\ UNCHANGED <<users, chats, chatMessages, meals, appSecret>>
  /\ UNCHANGED <<pipeline, concurrent>>

HandleWebhook == \E req \in Requests : handleWebhook(req)

\* process i is at the await named at
At(i, at) == i \in 1..Len(procs) /\ procs[i].pc = at
Becomes(i, p) == procs' = [procs EXCEPT ![i] = p]

\* getOrCreateUser: the select settles
SelectUser(i, ok) ==
  /\ At(i, "selectUser")
  /\ Becomes(i, IF ~ok THEN Done(procs[i])
                ELSE IF procs[i].message.from \in users
                  THEN [procs[i] EXCEPT !.dbUser = procs[i].message.from,
                                        !.pc = "selectChat"]
                ELSE [procs[i] EXCEPT !.pc = "insertUser"])
  /\ UNCHANGED <<users, chats, chatMessages, meals, appSecret, http>>
  /\ UNCHANGED <<pipeline, concurrent>>

\* getOrCreateUser: the insert settles; whatsapp_id has a unique index
InsertUser(i, ok) ==
  /\ At(i, "insertUser")
  /\ IF ok /\ procs[i].message.from \notin users
       THEN /\ users' = users \cup {procs[i].message.from}
            /\ Becomes(i, [procs[i] EXCEPT !.dbUser = procs[i].message.from,
                                           !.pc = "selectChat"])
       ELSE /\ Becomes(i, Done(procs[i]))
            /\ UNCHANGED users
  /\ UNCHANGED <<chats, chatMessages, meals, appSecret, http>>
  /\ UNCHANGED <<pipeline, concurrent>>

\* getOrCreateChat: the select settles
SelectChat(i, ok) ==
  /\ At(i, "selectChat")
  /\ Becomes(i, IF ~ok THEN Done(procs[i])
                ELSE IF LatestChat(chats, procs[i].dbUser) # 0
                  THEN [procs[i] EXCEPT !.dbChat = LatestChat(chats, procs[i].dbUser),
                                        !.pc = "saveInbound"]
                ELSE [procs[i] EXCEPT !.pc = "insertChat"])
  /\ UNCHANGED <<users, chats, chatMessages, meals, appSecret, http>>
  /\ UNCHANGED <<pipeline, concurrent>>

\* getOrCreateChat: the insert settles; user_id has a plain index
InsertChat(i, ok) ==
  /\ At(i, "insertChat")
  /\ IF ok
       THEN /\ chats' = Append(chats, procs[i].dbUser)
            /\ Becomes(i, [procs[i] EXCEPT !.dbChat = Len(chats) + 1,
                                           !.pc = "saveInbound"])
       ELSE /\ Becomes(i, Done(procs[i]))
            /\ UNCHANGED chats
  /\ UNCHANGED <<users, chatMessages, meals, appSecret, http>>
  /\ UNCHANGED <<pipeline, concurrent>>

\* ALLOWED_PHONE_NUMBERS.includes(whatsappId)
Allowed(whatsappId) == whatsappId \in ALLOWED_PHONE_NUMBERS

\* saveInboundMessage settles (a failure is logged), then the two filters,
\* then getConversationHistory is called
SaveInbound(i, ok) ==
  /\ At(i, "saveInbound")
  /\ chatMessages' =
       IF ok THEN Append(chatMessages,
                         [chatId |-> procs[i].dbChat, direction |-> "inbound",
                          content |-> IF Truthy(procs[i].message.body)
                                        THEN procs[i].message.body ELSE Null,
                          metadata |-> procs[i].message.id])
       ELSE chatMessages
  /\ Becomes(i, IF ~Allowed(procs[i].message.from) THEN Done(procs[i])
                ELSE IF procs[i].message.type # "text" \/ ~Truthy(procs[i].message.body)
                  THEN Done(procs[i])
                ELSE [procs[i] EXCEPT !.pc = "history"])
  /\ UNCHANGED <<users, chats, meals, appSecret, http>>
  /\ UNCHANGED <<pipeline, concurrent>>

\* getConversationHistory settles; the conversation is the system prompt,
\* the history and the message; the model is called
History(i, ok) ==
  /\ At(i, "history")
  /\ Becomes(i, IF ~ok THEN Caught(procs[i], "history")
                ELSE [procs[i] EXCEPT
                        !.messagesWithDate =
                          <<[role |-> "system", content |-> Str(<<"SYSTEM_PROMPT">>)]>>
                            \o convertToOpenAIMessages(
                                 getConversationHistory(chatMessages, procs[i].dbChat))
                            \o <<[role |-> "user", content |-> procs[i].message.body]>>,
                        !.asked = @ + 1,
                        !.pc = "model"])
  /\ UNCHANGED <<users, chats, chatMessages, meals, appSecret, http>>
  /\ UNCHANGED <<pipeline, concurrent>>

\* openai.chat.completions.create of the loop settles
ModelResponse(i, ok, message) ==
  /\ At(i, "model")
  /\ ok /\ message # Undefined /\ Len(message.tool_calls) > 0 => procs[i].rounds < MaxRounds
  /\ Becomes(i, IF ~ok THEN Caught(procs[i], "model")
                ELSE OnAssistantMessage(procs[i], message))
  /\ UNCHANGED <<users, chats, chatMessages, meals, appSecret, http>>
  /\ UNCHANGED <<pipeline, concurrent>>

\* executeAnalyzeMealTool: the parse call settles: no content, text that is
\* no JSON, no item, or items, for which getAggregateNutritionalValues is
\* called
ParseMealResponse(i, parseContent) ==
  /\ At(i, "parseMeal")
  /\ Becomes(i, CASE parseContent = "reject" -> Caught(procs[i], "model")
                  [] parseContent = "none" -> ToolReturned(procs[i], Unidentified)
                  [] parseContent = "no json" -> ToolReturned(procs[i], Unprocessable)
                  [] parseContent = "no items" -> ToolReturned(procs[i], NoFood)
                  [] parseContent = "items" ->
                       [procs[i] EXCEPT !.pc = "aggregate", !.aggregateCalls = @ + 1])
  /\ UNCHANGED <<users, chats, chatMessages, meals, appSecret, http>>
  /\ UNCHANGED <<pipeline, concurrent>>

\* getAggregateNutritionalValues settles: its failure reaches the catch of
\* processIncomingMessage; else saveMeal is called
AggregateResponse(i, ok) ==
  /\ At(i, "aggregate")
  /\ Becomes(i, IF ~ok THEN Caught(procs[i], "aggregate")
                ELSE [procs[i] EXCEPT !.pc = "saveMeal"])
  /\ UNCHANGED <<users, chats, chatMessages, meals, appSecret, http>>
  /\ UNCHANGED <<pipeline, concurrent>>

\* saveMeal settles (a failure is logged); the tool returns the formatted
\* response
SaveMealResponse(i, ok) ==
  /\ At(i, "saveMeal")
  /\ meals' = IF ok THEN meals + 1 ELSE meals
  /\ Becomes(i, ToolReturned(procs[i], NutritionalResponse))
  /\ UNCHANGED <<users, chats, chatMessages, appSecret, http>>
  /\ UNCHANGED <<pipeline, concurrent>>

\* executeLookupMealHistoryTool: fetchMealsWithItems settles
LookupResponse(i, ok) ==
  /\ At(i, "lookup")
  /\ Becomes(i, IF ~ok THEN Caught(procs[i], "lookup")
                ELSE ToolReturned(procs[i], MealHistory))
  /\ UNCHANGED <<users, chats, chatMessages, meals, appSecret, http>>
  /\ UNCHANGED <<pipeline, concurrent>>

\* saveOutboundMessage settles (a failure is logged); the final response
\* is given to sendWhatsAppMessage
SaveOutbound(i, ok) ==
  /\ At(i, "saveOutbound")
  /\ chatMessages' =
       IF ok THEN Append(chatMessages,
                         [chatId |-> procs[i].dbChat, direction |-> "outbound",
                          content |-> procs[i].finalResponse, metadata |-> 0])
       ELSE chatMessages
  /\ Becomes(i, [procs[i] EXCEPT !.pc = "send",
                                 !.sends = Append(@, procs[i].finalResponse)])
  /\ UNCHANGED <<users, chats, meals, appSecret, http>>
  /\ UNCHANGED <<pipeline, concurrent>>

\* sendWhatsAppMessage of the final response settles
SendResponse(i, ok) ==
  /\ At(i, "send")
  /\ Becomes(i, IF ok THEN Done(procs[i]) ELSE Caught(procs[i], "send"))
  /\ UNCHANGED <<users, chats, chatMessages, meals, appSecret, http>>
  /\ UNCHANGED <<pipeline, concurrent>>

\* a catch that lets the failure of its own send through
Rethrown(p, ok) == [p EXCEPT !.pc = "done", !.out = IF ok THEN "returned" ELSE "threw"]

\* sendWhatsAppMessage(...).catch(() => {}) of the catch settles
Swallowed(p, ok) == Done(p)

SendErrorResponse(i, ok) ==
  /\ At(i, "sendError")
  /\ Becomes(i, Swallowed(procs[i], ok))
  /\ UNCHANGED <<users, chats, chatMessages, meals, appSecret, http>>
  /\ UNCHANGED <<pipeline, concurrent>>

\* a step of process i, the database settling its statements as db allows
ProcessStep(i, db) ==
  \/ \E ok \in db : SelectUser(i, ok)
  \/ \E ok \in db : InsertUser(i, ok)
  \/ \E ok \in db : SelectChat(i, ok)
  \/ \E ok \in db : InsertChat(i, ok)
  \/ \E ok \in db : SaveInbound(i, ok)
  \/ \E ok \in db : History(i, ok)
  \/ ModelResponse(i, FALSE, Undefined)
  \/ \E message \in ModelMessages : ModelResponse(i, TRUE, message)
  \/ \E parseContent \in {"reject", "none", "no json", "no items", "items"} :
       ParseMealResponse(i, parseContent)
  \/ \E ok \in BOOLEAN : AggregateResponse(i, ok)
  \/ \E ok \in db : SaveMealResponse(i, ok)
  \/ \E ok \in BOOLEAN : LookupResponse(i, ok)
  \/ \E ok \in db : SaveOutbound(i, ok)
  \/ \E ok \in BOOLEAN : SendResponse(i, ok)
  \/ \E ok \in BOOLEAN : SendErrorResponse(i, ok)

\* the server on a database that refuses only the insert of a user that
\* exists: one POST /webhook, then the processing of its messages
NextServer ==
  \/ HandleWebhook
  \/ \E i \in 1..MaxMessages : ProcessStep(i, {TRUE})

SpecServer == InitServer /\ [][NextServer]_vars

\* the database before a message arrives: empty, or with the sender's
\* user, chat and one exchange
Databases ==
  { [users |-> {}, chats |-> <<>>, chatMessages |-> <<>>],
    [users |-> {"5519992932912"}, chats |-> <<"5519992932912">>,
     chatMessages |-> <<[chatId |-> 1, direction |-> "inbound",
                         content |-> Str(<<"oi">>), metadata |-> 0],
                        [chatId |-> 1, direction |-> "outbound",
                         content |-> Str(<<"resposta">>), metadata |-> 0]>>] }

\* handleWebhook has started the processing of the one message of a POST
InitMessage ==
  /\ InitPipelineIdle
  /\ appSecret = Undefined
  /\ \E messages \in {b \in Batches : Len(b) = 1} :
       /\ http = [req |-> [body |-> [json |-> TRUE, object |-> "whatsapp_business_account",
                                     messages |-> messages],
                           signature |-> Null],
                  status |-> 200, started |-> 1]
       /\ procs = <<Proc(messages[1])>>
  /\ \E d \in Databases :
       /\ users = d.users
       /\ chats = d.chats
       /\ chatMessages = d.chatMessages
  /\ meals = 0

\* the processing of one message, on a database that may fail any statement
NextMessage ==
  \E i \in 1..MaxMessages : ProcessStep(i, BOOLEAN)

SpecMessage == InitMessage /\ [][NextMessage]_vars

(***************************************************************************)
(* Two aggregate calls that run interleaved.  The variables of the         *)
(* pipeline hold the local variables of the call that runs; frames holds   *)
(* those of the calls suspended at an await.  Call 0 runs alone, on the    *)
(* items and with the answers of call 1; then calls 1 and 2 run, each      *)
(* resumed at any of its awaits.                                           *)
(***************************************************************************)
\* the local variables of getAggregateNutritionalValues and of the
\* getFoodNutritionalValues it awaits
Frame ==
  [items |-> items, pc |-> pc, cur |-> cur, pending |-> pending,
   aggregate |-> aggregate, totalGrams |-> totalGrams, itemDetails |-> itemDetails,
   searchResults |-> searchResults, bestMatch |-> bestMatch,
   nutritionalValues |-> nutritionalValues, calls |-> calls, result |-> result,
   ev |-> ev]

\* a call about to be made
NewFrame(options) ==
  [items |-> options, pc |-> "init", cur |-> 0, pending |-> {},
   aggregate |-> createEmptyAggregate, totalGrams |-> Int2Num(0), itemDetails |-> <<>>,
   searchResults |-> <<>>, bestMatch |-> Undefined, nutritionalValues |-> Undefined,
   calls |-> <<>>, result |-> None, ev |-> NoEv]

\* running sums, gram total and item list kept in variables of the module,
\* which every call shares
ResumeWithSharedSums(f) ==
  /\ items' = f.items
  /\ pc' = f.pc
  /\ cur' = f.cur
  /\ pending' = f.pending
  /\ searchResults' = f.searchResults
  /\ bestMatch' = f.bestMatch
  /\ nutritionalValues' = f.nutritionalValues
  /\ calls' = f.calls
  /\ result' = f.result
  /\ ev' = f.ev
  /\ UNCHANGED <<aggregate, totalGrams, itemDetails>>

\* a call goes on after its await with the local variables it had
Resume(f) ==
  /\ items' = f.items
  /\ pc' = f.pc
  /\ cur' = f.cur
  /\ pending' = f.pending
  /\ aggregate' = f.aggregate
  /\ totalGrams' = f.totalGrams
  /\ itemDetails' = f.itemDetails
  /\ searchResults' = f.searchResults
  /\ bestMatch' = f.bestMatch
  /\ nutritionalValues' = f.nutritionalValues
  /\ calls' = f.calls
  /\ result' = f.result
  /\ ev' = f.ev

\* what the services answer to a call: the page of the search, the replies
\* of the two oracles, how the fetch of the food page ends
Answers(page, select, detail, serving) ==
  [search |-> [fetch |-> "ok", found |-> Return(searchResultsOf[page])],
   select |-> select, detail |-> detail, serving |-> serving]
Worlds ==
  { Answers([i \in 1..2 |-> Row("food", i)], OracleContent(Text(Obj(Int2Num(2)))),
            "ok", OracleContent(Text(Obj(Int2Num(150))))),
    Answers([i \in 1..1 |-> Row("food", i)], OracleReject, "ok", OracleReject),
    Answers([i \in 1..2 |-> Row("food", i)], OracleContent(Text(Obj(Int2Num(1)))),
            "notok", OracleContent(Text(Obj(Int2Num(150))))) }

\* the items of a concurrent call: foods asked for with and without a serving
ItemLists ==
  UNION {[1..n -> {o \in ItemChoices : o.serving # Str(<<>>)}] : n \in 0..MaxItemsEach}

InitTwo ==
  /\ \E i1 \in ItemLists, i2 \in ItemLists :
       /\ frames = <<NewFrame(i1), NewFrame(i2)>>
       /\ items = i1
       /\ alone = NewFrame(i1)
  /\ \E w1 \in Worlds, w2 \in Worlds : world = <<w1, w2>>
  /\ me = 0
  /\ pc = "init"
  /\ cur = 0
  /\ pending = {}
  /\ aggregate = createEmptyAggregate
  /\ totalGrams = Int2Num(0)
  /\ itemDetails = <<>>
  /\ searchResults = <<>>
  /\ bestMatch = Undefined
  /\ nutritionalValues = Undefined
  /\ calls = <<>>
  /\ result = None
  /\ ev = NoEv
  /\ app = None
  /\ NoServer

\* the answers given to the call that runs: those of call 1 for call 0
Mine == world[IF me = 0 THEN 1 ELSE me]

\* the step settled the pending call as the world of the call answers it
Agrees ==
  \A r \in pending :
    CASE r.kind = "search" -> ev'.fetch = Mine.search.fetch /\ ev'.found = Mine.search.found
      [] r.kind = "select" -> ev'.sel.reply = Mine.select
      [] r.kind = "detail" -> ev'.fetch = Mine.detail
      [] r.kind = "serving" -> ev'.srv.reply = Mine.serving

Finished == pc \in {"done", "failed"}

\* the call that runs is suspended at its await (or has ended) and call c
\* goes on; call 0 has ended before calls 1 and 2 run
Switch(c) ==
  /\ c # me
  /\ me = 0 => (Finished /\ c = 1)
  /\ me' = c
  /\ Resume(frames[c])
  /\ IF me = 0
       THEN alone' = Frame /\ UNCHANGED frames
       ELSE frames' = [frames EXCEPT ![me] = Frame] /\ UNCHANGED alone
  /\ UNCHANGED <<world, app, server>>

NextTwo ==
  \/ Call /\ Agrees
  \/ SearchResponse /\ Agrees
  \/ SelectResponse /\ Agrees
  \/ DetailResponse /\ Agrees
  \/ ServingResponse /\ Agrees
  \/ \E c \in 1..2 : Switch(c)

SpecTwo == InitTwo /\ [][NextTwo]_vars

(***************************************************************************)
(* The claims.                                                             *)
(***************************************************************************)
\* the last step ran selectBestMatch past its oracle call
Selected == ev.sel # None /\ ev.sel.reply # None
\* the last step ran calculateServingSize past its oracle call
Served == ev.srv # None

\* what a reply is: the call failed, no content, text that is no JSON, or a
\* property value read from the parsed JSON
CallFailed(reply) == reply.k = "reject"
Absent(reply) == reply.k = "resolve" /\ ~Truthy(reply.content)
Unparseable(reply) ==
  reply.k = "resolve" /\ Truthy(reply.content) /\ reply.content.json = BadJson
HasProperty(reply) ==
  /\ reply.k = "resolve"
  /\ Truthy(reply.content)
  /\ reply.content.json # BadJson
  /\ reply.content.json.t = "object"
Property(reply) == reply.content.json.p
\* the reply carries the integer index i
CarriesIndex(reply) == HasProperty(reply) /\ IsInt(Property(reply))

\* C1: with at least 2 candidates, when the oracle's reply is absent, is not
\* parseable or carries an index outside 1..N, selectBestMatch returns the
\* first candidate.
C1_FallbackToFirst ==
  (/\ Selected
   /\ Len(ev.sel.cands) >= 2
   /\ \/ Absent(ev.sel.reply)
      \/ Unparseable(ev.sel.reply)
      \/ /\ CarriesIndex(ev.sel.reply)
         /\ Property(ev.sel.reply).n \notin 1..Len(ev.sel.cands))
    => ev.sel.out = Return(ev.sel.cands[1])

\* an index one past the end was answered and the first candidate returned
C1_Witness ==
  /\ Selected
  /\ Len(ev.sel.cands) >= 2
  /\ CarriesIndex(ev.sel.reply)
  /\ Property(ev.sel.reply).n = Len(ev.sel.cands) + 1
  /\ ev.sel.out = Return(ev.sel.cands[1])
  /\ bestMatch = ev.sel.cands[1]

\* C2: whatever the oracle replies, the value selectBestMatch returns is one
\* of the candidates it was given, never undefined.
C2_ReturnsACandidate ==
  (Selected /\ ev.sel.out.k = "return")
    => \E i \in 1..Len(ev.sel.cands) : ev.sel.out.v = ev.sel.cands[i]

\* C3: when the selection oracle call itself fails, selectBestMatch returns
\* the first candidate and the resolution goes on.
C3_OracleFailureAbsorbed ==
  (Selected /\ CallFailed(ev.sel.reply))
    => /\ ev.sel.out = Return(ev.sel.cands[1])
       /\ ev.food.k # "throw"
       /\ pc # "failed"

\* a failure mode of the serving oracle: the call fails, the response is
\* empty, the payload is no number, or it is a number <= 0
ServingFailure(reply) ==
  \/ CallFailed(reply)
  \/ Absent(reply)
  \/ Unparseable(reply)
  \/ /\ reply.k = "resolve" /\ Truthy(reply.content) /\ reply.content.json # BadJson
     /\ \/ ~HasProperty(reply)
        \/ ~IsRat(Property(reply))
        \/ Property(reply).n <= 0

\* C4: calculateServingSize never throws, and in every failure mode of the
\* oracle it returns exactly 100.
C4_ServingFallsBackTo100 ==
  Served =>
    /\ ev.srv.out.k = "return"
    /\ ServingFailure(ev.srv.reply) => ev.srv.out.v = Int2Num(100)

\* C5: a result of getFoodNutritionalValues that carries serving information
\* has gramsAmount a number > 0, multiplier = gramsAmount / 100, multiplier > 0.
C5_ServingInfoIsPositive ==
  (ev.food.k = "return" /\ ev.food.v.serving # Undefined)
    => LET g == ev.food.v.serving.gramsAmount
           m == ev.food.v.serving.multiplier
       IN  /\ IsRat(g) /\ g.n > 0
           /\ IsRat(m) /\ m.n > 0
           /\ m = Rat(g.n, g.d * 100)

\* C6: if the resolution of an item throws, the aggregate call fails as a
\* whole: it returns no result, nothing is in flight and no further step is
\* taken, so no later item is resolved.
C6_FailureAbortsAggregate ==
  ev.food.k = "throw" =>
    /\ pc = "failed"
    /\ result = None
    /\ pending = {}
    /\ ~ENABLED Next

\* the second of two items failed after the first was resolved and summed
C6_Witness ==
  /\ ev.food.k = "throw"
  /\ pc = "failed"
  /\ cur = 2
  /\ Len(itemDetails) = 1
  /\ \E f \in Fields : aggregate[f] # Int2Num(0)
  /\ result = None

\* C7: items are resolved one after another in input order: at most one
\* external call is in flight, it belongs to the item that follows the items
\* resolved so far, and the result lists one entry per input item in input
\* order with itemCount the input length.
C7_SequentialInOrder ==
  /\ Cardinality(pending) <= 1
  /\ \A r \in pending :
       /\ r.item = cur
       /\ r.item = Len(itemDetails) + 1
       /\ r.kind = "search" => r.url.q = items[r.item].foodName
  /\ pc = "running" => \A i \in 1..Len(calls) : calls[i].item = cur
  /\ \A k \in 1..Len(itemDetails) :
       /\ itemDetails[k].foodName = items[k].foodName
       /\ itemDetails[k].serving = items[k].serving
  /\ (pc = "done" /\ Len(items) > 0) =>
       /\ result.v.itemCount = Len(items)
       /\ Len(result.v.items) = Len(items)
       /\ \A k \in 1..Len(items) :
            /\ result.v.items[k].foodName = items[k].foodName
            /\ result.v.items[k].serving = items[k].serving

\* two different items were resolved and returned in input order
C7_Witness ==
  /\ pc = "done"
  /\ Len(items) = 2
  /\ items[1] # items[2]
  /\ result.v.itemCount = 2
  /\ result.v.items[1].foodName = items[1].foodName
  /\ result.v.items[2].foodName = items[2].foodName

\* x to 2 decimals, ties towards +infinity
Round2(x) == Rat((200 * x.n + x.d) \div (2 * x.d), 100)

Zero == Int2Num(0)

\* the sum of field f over the nutrient vectors of the item details
RECURSIVE SumOfField(_, _)
SumOfField(details, f) ==
  IF details = <<>> THEN Zero
  ELSE RAdd(SumOfField(SubSeq(details, 1, Len(details) - 1), f),
            details[Len(details)].nutritionalValues.v[f])

\* the sum of the gram amounts of the item details, each taken as a number
RECURSIVE SumOfGrams(_)
SumOfGrams(details) ==
  IF details = <<>> THEN Zero
  ELSE RAdd(SumOfGrams(SubSeq(details, 1, Len(details) - 1)),
            ToNumber(details[Len(details)].gramsAmount))

\* the exact scaled value of field f of an item: the per-100g value of its
\* page times grams / 100
ExactScaled(d, f) ==
  RMul(DetailPage(d.sourceUrl).facts[f],
       RDiv(ToNumber(d.gramsAmount), Int2Num(100)))

RECURSIVE SumOfExact(_, _)
SumOfExact(details, f) ==
  IF details = <<>> THEN Zero
  ELSE RAdd(SumOfExact(SubSeq(details, 1, Len(details) - 1), f),
            ExactScaled(details[Len(details)], f))

Returned == pc = "done" /\ Len(items) > 0

\* C8: of a non-empty aggregate call that succeeds, every field of totals is
\* the sum of that field over the returned items rounded to 2 decimals, and
\* totalGrams the sum of the items' gramsAmount rounded to 2 decimals.
C8_TotalsAreSums ==
  Returned =>
    /\ \A f \in Fields :
         result.v.totals[f] = Round2(SumOfField(result.v.items, f))
    /\ result.v.totalGrams = Round2(SumOfGrams(result.v.items))

\* C9 as claimed: every field of totals is round2 of the sum of the items'
\* exact scaled values, no item being rounded before it is added.
C9_RoundedOnlyOnce ==
  Returned =>
    \A f \in Fields : result.v.totals[f] = Round2(SumOfExact(result.v.items, f))

\* C9 as amended: the aggregator rounds once, at the end: the running sum of
\* every field is the exact sum of the values of the items resolved so far
\* as getFoodNutritionalValues returned them, and totals is its rounding;
\* but the value of an item resolved with a serving was rounded to 2
\* decimals by scaleNutritionalValues before it was added.
C9_AggregatorRoundsOnce ==
  /\ \A f \in Fields : aggregate[f] = SumOfField(itemDetails, f)
  /\ \A k \in 1..Len(itemDetails), f \in Fields :
       itemDetails[k].nutritionalValues.v[f] =
         IF Truthy(itemDetails[k].serving)
           THEN Round2(ExactScaled(itemDetails[k], f))
           ELSE ExactScaled(itemDetails[k], f)
  /\ Returned =>
       \A f \in Fields : result.v.totals[f] = Round2(aggregate[f])

\* two items were summed, one added unrounded, and a total is not the
\* rounding of the exact sum
C9_Witness ==
  /\ Returned
  /\ Len(result.v.items) = 2
  /\ \E k \in 1..2, f \in Fields :
       result.v.items[k].nutritionalValues.v[f]
         # Round2(result.v.items[k].nutritionalValues.v[f])
  /\ \E f \in Fields :
       result.v.totals[f] # Round2(SumOfExact(result.v.items, f))

\* C10: for an aggregate of up to 3 items, every field of totals is within
\* 0.01 of the sum of the items' exact scaled values rounded once.
C10_WithinOneUnit ==
  (Returned /\ Len(items) <= 3) =>
    \A f \in Fields :
      RLe(RAbs(RSub(result.v.totals[f], Round2(SumOfExact(result.v.items, f)))),
          Rat(1, 100))

\* three items were summed and a total is a full unit away from the exact
\* sum rounded once
C10_Witness ==
  /\ Returned
  /\ Len(items) = 3
  /\ \E f \in Fields :
       RAbs(RSub(result.v.totals[f], Round2(SumOfExact(result.v.items, f))))
         = Rat(1, 100)

\* C11: an aggregate call with an empty item list is not an error: it makes
\* no external call and returns itemCount 0, totalGrams 0, no items and a
\* totals vector whose 14 fields are all 0.
C11_EmptyReturnsZeroes ==
  (Len(items) = 0 /\ pc \notin {"init", "idle"}) =>
    /\ pc = "done"
    /\ pending = {}
    /\ calls = <<>>
    /\ result = Return([itemCount |-> 0,
                        totalGrams |-> Int2Num(0),
                        totals |-> [f \in Fields |-> Int2Num(0)],
                        items |-> <<>>])

\* the call with no items has returned
C11_Witness ==
  /\ Len(items) = 0
  /\ pc = "done"
  /\ result.k = "return"
  /\ result.v.itemCount = 0

\* x to 2 decimals, ties away from zero
Round2Away(x) ==
  LET r == Round2(RAbs(x))
  IN  IF x.n < 0 THEN [r EXCEPT !.n = -r.n] ELSE r

\* the scaler was applied
Scaled == app # None /\ app.fn = "scaleNutritionalValues" /\ app.out # None

Extracted == app # None /\ app.fn = "parseNutritionalValues" /\ app.out # None

\* C13: for every page, parseNutritionalValues does not throw and each of
\* the 14 fields it returns is a number >= 0.
C13_FieldsAreNonNegative ==
  Extracted =>
    /\ app.out.k = "return"
    /\ \A f \in Fields : IsRat(app.out.v.v[f]) /\ app.out.v.v[f].n >= 0

\* the fat a sub-row is labelled with, from the words of its label
FatOf(el) ==
  LET words == {Lower(el.text[i]) : i \in 1..Len(el.text)}
  IN  IF "mono" \in words THEN "monounsaturated"
      ELSE IF "poli" \in words THEN "polyunsaturated"
      ELSE IF "saturada" \in words THEN "saturated"
      ELSE "other"

\* the values shown next to the sub-rows labelled with a fat
ShownFor(els, which) ==
  { parseNumber(els[i + 1].text) :
      i \in {j \in 1..(Len(els) - 1) :
               /\ {"nutrient", "sub", "left"} \subseteq els[j].cls
               /\ FatOf(els[j]) = which
               /\ "tRight" \in els[j + 1].cls} }

FatField(which) ==
  CASE which = "saturated" -> "fat.saturated"
    [] which = "monounsaturated" -> "fat.monounsaturated"
    [] which = "polyunsaturated" -> "fat.polyunsaturated"

\* C14: fat.saturated, fat.monounsaturated and fat.polyunsaturated are each
\* read only from the sub-row labelled with that fat: a field is 0 or a
\* value shown next to its own row, and on a page that shows a subset of the
\* three rows in any order each field is its own row's value, or 0 when its
\* row is absent.
C14_FatsReadFromOwnRow ==
  Extracted =>
    LET page == app.arg[1]
        out == app.out.v.v
    IN  \A which \in FatRowNames :
          /\ out[FatField(which)] \in {Int2Num(0)} \cup ShownFor(page.els, which)
          /\ page \in FatRowPages =>
               out[FatField(which)] =
                 IF \E i \in 1..Len(page.names) : page.names[i] = which
                   THEN parseNumber(FatRow(which)[2].text)
                   ELSE Int2Num(0)

\* the saturated row came before the two others and the three fields were
\* read, each from its own row
C14_Witness ==
  /\ Extracted
  /\ app.arg[1] \in FatRowPages
  /\ Len(app.arg[1].names) = 3
  /\ app.arg[1].names[1] = "saturated"
  /\ app.out.v.v["fat.saturated"] = Dec(3154)
  /\ app.out.v.v["fat.monounsaturated"] = Dec(3269)
  /\ app.out.v.v["fat.polyunsaturated"] = Dec(205)

\* parseSearchResults was applied
Parsed == app # None /\ app.fn = "parseSearchResults" /\ app.out # None

\* the row has a primary link with an href
HasLink(row) == row.prominent /\ row.href \notin {Undefined, Str(<<>>)}

\* C15: of a page whose N rows all have a primary link, parseSearchResults
\* returns min(N, 10) candidates: the first min(N, 10) rows, in document order.
C15_FirstTenInOrder ==
  (Parsed /\ \A i \in 1..Len(app.arg[1]) : HasLink(app.arg[1][i])) =>
    LET page == app.arg[1]
        out == app.out.v
    IN  /\ Len(out) = Min(Len(page), 10)
        /\ \A i \in 1..Len(out) :
             out[i].name = page[i].name /\ out[i].url = page[i].href

\* a page of more than 10 rows gave its first 10 rows
C15_Witness ==
  /\ Parsed
  /\ Len(app.arg[1]) > 10
  /\ \A i \in 1..Len(app.arg[1]) : HasLink(app.arg[1][i])
  /\ Len(app.out.v) = 10
  /\ app.out.v[10].url = app.arg[1][10].href
  /\ app.out.v[1].url = app.arg[1][1].href

\* C16: a row without a primary link, or whose primary link has no href,
\* yields no candidate and does not make parseSearchResults fail; the
\* candidates are those of the page's other rows, in the same order, as if
\* the row were not there.
C16_LinklessRowsAreSkipped ==
  Parsed =>
    LET page == app.arg[1]
        out == app.out.v
        others == SelectSeq(page, HasLink)
    IN  /\ app.out.k = "return"
        /\ Len(out) = Min(Len(others), 10)
        /\ \A i \in 1..Len(out) :
             out[i].name = others[i].name /\ out[i].url = others[i].href
        /\ out = parseSearchResults(others)

\* one of the first 10 of 11 rows has a link without href: the 10
\* candidates are the other rows, the 11th row included
C16_Witness ==
  /\ Parsed
  /\ Len(app.arg[1]) = 11
  /\ \E k \in 1..10 :
       /\ app.arg[1][k].prominent
       /\ ~HasLink(app.arg[1][k])
       /\ \A i \in 1..11 : i # k => HasLink(app.arg[1][i])
       /\ k < 10 => app.out.v[k].url = app.arg[1][k + 1].href
  /\ Len(app.out.v) = 10
  /\ app.out.v[10].url = app.arg[1][11].href

\* the four coarse macro fields of a candidate, with the label and the unit
\* of the pattern each is read with
Macros ==
  { <<"caloriesPer100g", "Calorias:", "kcal">>,
    <<"fatPer100g", "Gord:", "g">>,
    <<"carbsPer100g", "Carbs:", "g">>,
    <<"proteinPer100g", "Prot:", "g">> }

\* C17: for every search page parseSearchResults does not throw, each of
\* the four macro fields of every candidate is a number >= 0 (never NaN),
\* and a field whose pattern does not match the row's text is 0.
C17_MacrosAreNumbers ==
  Parsed =>
    LET others == SelectSeq(app.arg[1], HasLink)
    IN  /\ app.out.k = "return"
        /\ \A i \in 1..Len(app.out.v), m \in Macros :
             /\ IsRat(app.out.v[i][m[1]])
             /\ app.out.v[i][m[1]].n >= 0
             /\ Match(others[i].info, m[2], m[3]) = Null =>
                  app.out.v[i][m[1]] = Int2Num(0)

\* the search page of the last step gave no candidate
NoCandidates == ev.found # None /\ Len(ev.found.v) = 0

\* C18: when the search yields zero candidates the resolution fails with the
\* not-found error, the search fetch being the only external call it made:
\* no oracle call, no detail fetch; and selectBestMatch is never given an
\* empty candidate list.
C18_NotFoundBeforeAnyCall ==
  /\ NoCandidates =>
       /\ ev.food = Throw("No food items found")
       /\ ev.sel = None
       /\ pc = "failed"
       /\ calls = <<SearchCall(cur)>>
       /\ pending = {}
  /\ ev.sel # None => Len(ev.sel.cands) > 0

\* the search of the second item gave no candidate
C18_Witness ==
  /\ NoCandidates
  /\ cur = 2
  /\ pc = "failed"
  /\ ev.food = Throw("No food items found")
  /\ calls = <<SearchCall(2)>>

IsFetch(call) == call.kind \in {"search", "detail"}

\* C19: a non-2xx response to the search fetch or to the detail fetch makes
\* the resolution fail at once: the failed fetch is the last external call
\* of the resolution, nothing is in flight, no later step (selection, detail
\* fetch, serving) has run; and within a resolution no URL is fetched twice.
C19_NonOkFetchIsFatal ==
  /\ ev.fetch = "notok" =>
       /\ pc = "failed"
       /\ pending = {}
       /\ ev.sel = None
       /\ ev.srv = None
       /\ IsFetch(calls[Len(calls)])
       /\ \/ /\ ev.food = Throw("Failed to fetch search results")
             /\ calls = <<SearchCall(cur)>>
          \/ /\ ev.food = Throw("Failed to fetch food page")
             /\ calls[Len(calls)].kind = "detail"
             /\ \A i \in 1..(Len(calls) - 1) : calls[i].kind # "detail"
  /\ \A i, j \in 1..Len(calls) :
       (IsFetch(calls[i]) /\ IsFetch(calls[j]) /\ calls[i].url = calls[j].url) => i = j

\* the detail fetch that followed an oracle selection was answered non-2xx
C19_Witness ==
  /\ ev.fetch = "notok"
  /\ pc = "failed"
  /\ ev.food = Throw("Failed to fetch food page")
  /\ Len(calls) = 3
  /\ calls[2].kind = "select"
  /\ calls[3].kind = "detail"

\* the serving oracle of the last step failed, calculateServingSize fell
\* back to 100 and the resolution returned
FellBack ==
  /\ Served
  /\ ServingFailure(ev.srv.reply)
  /\ ev.srv.out = Return(Int2Num(100))
  /\ ev.food.k = "return"

\* what a resolution of the same food over the same pages returns when no
\* serving is given
WithoutServing(res) ==
  [searchQuery |-> res.searchQuery,
   selectedFood |-> res.selectedFood,
   nutritionalValues |-> nutritionalValuesOf[DetailPage(res.sourceUrl), res.selectedFood],
   sourceUrl |-> res.sourceUrl,
   serving |-> Undefined]

\* the gram amount the aggregate loop takes from a resolution
GramsOf(res) ==
  IF res.serving = Undefined THEN Int2Num(100) ELSE res.serving.gramsAmount

\* C20 as claimed: a resolution whose serving oracle failed and fell back to
\* 100 g has the gram amount and the nutrient values of the resolution of
\* the same food over the same pages with no serving.
C20_FallbackEqualsNoServing ==
  FellBack =>
    /\ GramsOf(ev.food.v) = GramsOf(WithoutServing(ev.food.v))
    /\ \A f \in Fields :
         ev.food.v.nutritionalValues.v[f]
           = WithoutServing(ev.food.v).nutritionalValues.v[f]

\* C20 as amended: such a resolution has the gram amount of the resolution
\* with no serving (100) and a multiplier of 1, and each of its nutrient
\* values is that of the resolution with no serving rounded to 2 decimals.
C20_FallbackEqualsNoServingRounded ==
  FellBack =>
    /\ GramsOf(ev.food.v) = GramsOf(WithoutServing(ev.food.v))
    /\ GramsOf(ev.food.v) = Int2Num(100)
    /\ ev.food.v.serving.multiplier = Int2Num(1)
    /\ ev.food.v.selectedFood = WithoutServing(ev.food.v).nutritionalValues.name
    /\ \A f \in Fields :
         ev.food.v.nutritionalValues.v[f]
           = Round2(WithoutServing(ev.food.v).nutritionalValues.v[f])

\* the oracle answered nothing, the serving fell back to 100 g and a value
\* with 3 decimals came back with 2
C20_Witness ==
  /\ FellBack
  /\ Absent(ev.srv.reply)
  /\ ev.food.v.serving.gramsAmount = Int2Num(100)
  /\ \E f \in Fields :
       LET plain == WithoutServing(ev.food.v).nutritionalValues.v[f]
       IN  /\ plain # Round2(plain)
           /\ ev.food.v.nutritionalValues.v[f] = Round2(plain)

\* C22: selectBestMatch given exactly one candidate returns that candidate
\* without an oracle call: it is given no reply, and the external calls of
\* the resolution hold no oracle call, before the call as after it.
C22_OneCandidateNoOracle ==
  (ev.sel # None /\ Len(ev.sel.cands) = 1) =>
    /\ ev.sel.reply = None
    /\ ev.sel.out = Return(ev.sel.cands[1])
    /\ \A i \in 1..Len(calls) : IsFetch(calls[i])

\* the search gave one candidate, it was selected and its page is fetched
C22_Witness ==
  /\ ev.sel # None
  /\ Len(ev.sel.cands) = 1
  /\ bestMatch = ev.sel.cands[1]
  /\ calls = <<SearchCall(cur), DetailCall(cur, bestMatch.url)>>
  /\ pending = {DetailCall(cur, bestMatch.url)}

\* the external calls of a resolution of the current item that succeeds
ExpectedCalls ==
  <<SearchCall(cur)>>
    \o (IF Len(searchResults) >= 2 THEN <<SelectCall(cur)>> ELSE <<>>)
    \o <<DetailCall(cur, bestMatch.url)>>
    \o (IF Truthy(items[cur].serving) THEN <<ServingCall(cur)>> ELSE <<>>)

\* the values parsed from the page of the selected candidate
ParsedOfBestMatch == nutritionalValuesOf[DetailPage(bestMatch.url), bestMatch.name]

\* C23: in a step that ends a resolution with success, the external calls
\* the resolution made are, in this order and once each: the search fetch,
\* the selection oracle call when there were at least 2 candidates, the fetch
\* of the URL of the selected candidate, the serving oracle call when a
\* non-empty serving was given; the serving oracle ran, the values were
\* scaled and the result carries serving information exactly when a
\* non-empty serving was given.
C23_CallsInOrder ==
  [][(ev'.food # None /\ ev'.food.k = "return") =>
       /\ calls = ExpectedCalls
       /\ \E k \in 1..Len(searchResults) : searchResults[k] = bestMatch
       /\ (ev'.srv # None) <=> Truthy(items[cur].serving)
       /\ (ev'.food.v.serving # Undefined) <=> Truthy(items[cur].serving)
       /\ IF Truthy(items[cur].serving)
            THEN ev'.food.v.nutritionalValues.v =
                   scaleNutritionalValues(ParsedOfBestMatch,
                                          ev'.food.v.serving.multiplier).v
            ELSE ev'.food.v.nutritionalValues = ParsedOfBestMatch]_vars

\* a resolution with a selection among 2 candidates and a serving succeeded
\* after its four calls
C23_Witness ==
  /\ pc = "done"
  /\ ev.food # None
  /\ ev.food.k = "return"
  /\ ev.srv # None
  /\ Len(searchResults) >= 2
  /\ calls = <<SearchCall(cur), SelectCall(cur), DetailCall(cur, bestMatch.url),
               ServingCall(cur)>>
  /\ ev.food.v.serving # Undefined

\* the word of the label each field is looked up by
MainFields ==
  {"carbohydrates", "protein", "fat.total", "cholesterol", "fiber", "sodium",
   "potassium"}
SubFields ==
  {"sugar", "fat.saturated", "fat.trans", "fat.monounsaturated",
   "fat.polyunsaturated"}
WordOf(f) ==
  CASE f = "carbohydrates" -> "carboidrato"
    [] f = "protein" -> "proteina"
    [] f = "fat.total" -> "gordura"
    [] f = "cholesterol" -> "colesterol"
    [] f = "fiber" -> "fibra"
    [] f = "sodium" -> "sodio"
    [] f = "potassium" -> "potassio"
    [] f = "sugar" -> "acucar"
    [] f = "fat.saturated" -> "saturada"
    [] f = "fat.trans" -> "trans"
    [] f = "fat.monounsaturated" -> "mono"
    [] f = "fat.polyunsaturated" -> "poli"

\* the parsed texts of the value cells that immediately follow a label row
\* of the kind (sub row or main row) that shows the word
ReadFrom(els, sub, word) ==
  { parseNumber(els[i + 1].text) :
      i \in {j \in 1..(Len(els) - 1) :
               /\ {"nutrient", "left"} \subseteq els[j].cls
               /\ ("sub" \in els[j].cls) = sub
               /\ word \in {Lower(els[j].text[k]) : k \in 1..Len(els[j].text)}
               /\ "tRight" \in els[j + 1].cls} }

\* C24: each main field is the parsed text of a value cell that immediately
\* follows a main row whose label matches, and 0 when no matching main row
\* is followed by a value cell; each sub field is 0 or the parsed text of a
\* value cell that immediately follows a sub row: no main field is read
\* from a sub row and no sub field from a main row.
C24_LabelDeterminesValue ==
  Extracted =>
    LET els == app.arg[1].els
        out == app.out.v.v
    IN  /\ \A f \in MainFields :
             IF ReadFrom(els, FALSE, WordOf(f)) = {}
               THEN out[f] = Int2Num(0)
               ELSE out[f] \in ReadFrom(els, FALSE, WordOf(f))
        /\ \A f \in SubFields :
             out[f] \in {Int2Num(0)} \cup ReadFrom(els, TRUE, WordOf(f))

\* a page with the sub row "Gordura Saturada" and its value, then the main
\* row "Gorduras" followed by an element that is no value cell: the total
\* fat is 0 and the saturated fat is read
C24_Witness ==
  /\ Extracted
  /\ app.arg[1].els = <<Sub(<<"Gordura", " ", "Saturada">>),
                        Value(<<"7", ",", "5", " ", "g">>),
                        Main(<<"Gordura", "s">>),
                        [cls |-> {"nutrient"}, text |-> <<"9", " ", "g">>]>>
  /\ app.out.v.v["fat.total"] = Int2Num(0)
  /\ app.out.v.v["fat.saturated"] = Dec(7500)

\* C25: the search extractor parses each captured value text as the detail
\* extractor parses a value text: the same decimal for digits, a comma and
\* digits, and 0 for a text that is no number.
C25_SameParseInBothExtractors ==
  Parsed =>
    LET others == SelectSeq(app.arg[1], HasLink)
    IN  /\ app.out.k = "return"
        /\ \A i \in 1..Len(app.out.v), m \in Macros :
             Match(others[i].info, m[2], m[3]) # Null =>
               app.out.v[i][m[1]] =
                 parseNumber(Match(others[i].info, m[2], m[3]).s)

\* C26: when the aggregate call of an analyze_meal tool call fails,
\* processIncomingMessage catches the failure: the aggregate call is not
\* made again (every other aggregate call it made gave a nutritional tool
\* result), no final response is computed, the only text given to
\* sendWhatsAppMessage is the error message, once, and the processing ends
\* by returning, whether that send succeeds or fails.
C26_AggregateFailureIsReported ==
  \A i \in 1..Len(procs) :
    procs[i].caught = "aggregate" =>
      /\ procs[i].pc \in {"sendError", "done"}
      /\ procs[i].aggregateCalls =
           1 + Len(SelectSeq(procs[i].messagesWithDate,
                             LAMBDA m : m.role = "tool" /\ m.content = NutritionalResponse))
      /\ procs[i].finalResponse = Undefined
      /\ procs[i].sends = <<ErrorMessage>>
      /\ procs[i].pc = "done" => procs[i].out = "returned"

\* the aggregate call failed, the error message was given to
\* sendWhatsAppMessage and the processing returned
C26_Witness ==
  \E i \in 1..Len(procs) :
    /\ procs[i].caught = "aggregate"
    /\ procs[i].aggregateCalls = 1
    /\ procs[i].pc = "done"
    /\ procs[i].out = "returned"
    /\ procs[i].sends = <<ErrorMessage>>

\* the signature header of the request is that of the secret
Signed(req) ==
  Truthy(req.signature) /\ req.signature.s = Expected(appSecret.s, req.body)

\* C27: with a secret configured, a POST whose signature header is absent
\* or is not that of the secret is answered 403 and no message of it is
\* processed.
C27_UnsignedPostsAreRefused ==
  (http # None /\ Truthy(appSecret) /\ ~Signed(http.req)) =>
    (http.status = 403 /\ http.started = 0 /\ procs = <<>>)

\* C28: at most one chat row exists per user.
C28_OneChatPerUser ==
  \A u \in users : Cardinality({c \in 1..Len(chats) : chats[c] = u}) <= 1

\* the message is not answered: its sender is not allowed, or it is no text
\* message with a body
Filtered(message) ==
  \/ message.from \notin ALLOWED_PHONE_NUMBERS
  \/ message.type # "text"
  \/ ~Truthy(message.body)

\* the message has a row of direction inbound
Stored(message) ==
  \E k \in 1..Len(chatMessages) :
    chatMessages[k].direction = "inbound" /\ chatMessages[k].metadata = message.id

\* for a filtered message the model is never called and nothing is sent
NeverAnswered ==
  \A i \in 1..Len(procs) :
    Filtered(procs[i].message) => procs[i].asked = 0 /\ procs[i].sends = <<>>

\* C29: for a message whose sender is not allowed or that is no text
\* message with a body, the model is never called and nothing is sent, and
\* when its processing has ended the message is stored as an inbound row.
C29_FilteredMessagesAreOnlyStored ==
  /\ NeverAnswered
  /\ \A i \in 1..Len(procs) :
       (Filtered(procs[i].message) /\ procs[i].pc = "done") => Stored(procs[i].message)

\* the model's last response requested tool calls
RequestedTools(p) ==
  p.assistantMessage # Undefined /\ Len(p.assistantMessage.tool_calls) > 0

\* C30: when a follow-up call to the model is in flight, the conversation
\* ends with the assistant message that requested the tool calls followed by
\* one tool result per requested call, in request order, each with the id
\* of its call, unknown tools included; and a final response is computed,
\* and given to sendWhatsAppMessage, only after a model response that
\* requests no tool call.
C30_ToolResultsBeforeFollowUp ==
  \A i \in 1..Len(procs) :
    LET p == procs[i]
        conv == p.messagesWithDate
    IN  /\ (p.pc = "model" /\ p.rounds > 0) =>
             LET n == Len(p.assistantMessage.tool_calls)
             IN  /\ RequestedTools(p)
                 /\ Len(conv) > n
                 /\ conv[Len(conv) - n] = p.assistantMessage
                 /\ \A j \in 1..n :
                      /\ conv[Len(conv) - n + j].role = "tool"
                      /\ conv[Len(conv) - n + j].tool_call_id =
                           p.assistantMessage.tool_calls[j].id
        /\ p.finalResponse # Undefined => ~RequestedTools(p)
        /\ \A k \in 1..Len(p.sends) :
             p.sends[k] # ErrorMessage =>
               (p.sends[k] = p.finalResponse /\ ~RequestedTools(p))

\* a follow-up call is in flight after a request of three tool calls, the
\* first and the last of an unknown tool
C30_Witness ==
  \E i \in 1..Len(procs) :
    /\ procs[i].pc = "model"
    /\ procs[i].rounds = 1
    /\ Len(procs[i].assistantMessage.tool_calls) = 3
    /\ procs[i].messagesWithDate[Len(procs[i].messagesWithDate)] =
         [role |-> "tool", tool_call_id |-> "call_3", content |-> UnknownTool]
    /\ procs[i].messagesWithDate[Len(procs[i].messagesWithDate) - 2].tool_call_id = "call_1"

\* the local variables of call c of two concurrent calls
FrameOf(c) == IF c = me THEN Frame ELSE frames[c]

\* how a call ended: returned or threw, and what
Outcome(f) == [pc |-> f.pc, result |-> f.result, last |-> f.ev.food]

\* C21: a call that ran interleaved with another call, each suspended and
\* resumed at its awaits, ends as the call that ran alone on the same items
\* with the same answers of the external services: same result or same
\* error, with the same sums, gram total and item list.
C21_InterleavedAsAlone ==
  (me # 0 /\ FrameOf(1).pc \in {"done", "failed"}) =>
    Outcome(FrameOf(1)) = Outcome(alone)

\* call 1 has returned the sums of its item while call 2 is suspended at
\* the await of its food page, after its own search
C21_Witness ==
  /\ me = 1
  /\ pc = "done"
  /\ Len(items) >= 1
  /\ result = alone.result
  /\ frames[2].pc = "running"
  /\ \E r \in frames[2].pending : r.kind = "detail"

====
